---- MODULE Spec2Model ----
(***************************************************************************)
(* Model of the Webflow CMS toolkit's API client (src/src/utils/webflow.js) *)
(* One run of WebflowClient.upsertItems against a remote collection: the   *)
(* paginated listing of getAllItems, the construction of the two lookups,  *)
(* the per-row create-or-update decision, the per-row try/catch, the       *)
(* progress callback and the fixed delays.  Every action is the code that  *)
(* runs between two awaits of the async function.                          *)
(***************************************************************************)
EXTENDS Integers, Sequences, FiniteSets, TLC

\* ---------------------------------------------------------------- bounds
MaxRows == 2
MaxFullPages == 1
MaxFileRows == 6
MaxRuns == 2
MaxPending == 1

\* ------------------------------------------------------ program constants
limit == 100
ListDelayMs == 150
RowDelayMs == 200
DebugSample == 5

\* ------------------------------------------------------------ JS values
\* Values are strings.  Undefined and Null stand for the JS values of the
\* same name; they differ from every data string of the model.
Undefined == "<undefined>"
Null == "<null>"

\* JS truthiness of a string-or-undefined-or-null value.
Truthy(v) == v /= Undefined /\ v /= Null /\ v /= ""

\* obj[key] on an object used as a record of the row / item data: own
\* properties only matter here because the keys read are id and slug.
Field(obj, key) == IF key \in DOMAIN obj THEN obj[key] ELSE Undefined

\* `const slugToId = {}` is a plain object: a key that is not an own
\* property is looked up on Object.prototype.  The value recorded here is
\* what the inherited member becomes when updateItem interpolates it into
\* the request path.
ObjectPrototype == [constructor |-> "function Object() { [native code] }"]

\* slugToId[key]
PlainObjectGet(obj, key) ==
  IF key \in DOMAIN obj THEN obj[key]
  ELSE IF key \in DOMAIN ObjectPrototype THEN ObjectPrototype[key]
  ELSE Undefined

\* ---------------------------------------------------------- remote store
IdOf(k) == "i" \o ToString(k)
SlugOf(k) == "s" \o ToString(k)
NewId(k) == "n" \o ToString(k)

NoSlug == [name |-> "N"]
WithSlug(s) == [name |-> "N", slug |-> s]

\* The slugs of the first two items of a collection; later items carry the
\* slug SlugOf(k).  Slugs are unique within a collection.
HeadSlugs == { <<NoSlug, WithSlug("y")>>, <<WithSlug("y"), WithSlug("constructor")>> }
PagedHead == <<NoSlug, WithSlug("y")>>

MkStore(n, head) ==
  [k \in 1..n |-> [id |-> IdOf(k),
                   fieldData |-> IF k <= 2 THEN head[k] ELSE WithSlug(SlugOf(k))]]

\* Collections that fit in one page, and collections of one or more full
\* pages plus a remainder.
SmallSizes == {0, 2}
PagedSizes == { p * limit + d : p \in 1..MaxFullPages, d \in {0, 2} }

SmallStores == { MkStore(n, head) : n \in SmallSizes, head \in HeadSlugs }
PagedStores == { MkStore(n, PagedHead) : n \in PagedSizes }

\* ------------------------------------------------------------ input rows
RowIds == {Undefined, "", "i1", "zz"}
RowSlugs == {Undefined, "y", "constructor"}

MkRow(idv, slugv) ==
  [k \in ({"title"} \cup (IF idv = Undefined THEN {} ELSE {"id"})
                    \cup (IF slugv = Undefined THEN {} ELSE {"slug"})) |->
     CASE k = "id" -> idv
       [] k = "slug" -> slugv
       [] OTHER -> "T"]

Rows == { MkRow(a, b) : a \in RowIds, b \in RowSlugs }

\* Rows imported into a paged collection: one naming an item of the second
\* page by id, one by slug, one naming nothing.
PagedRows == { MkRow(IdOf(limit + 1), Undefined),
               MkRow(Undefined, SlugOf(limit + 2)),
               MkRow(Undefined, Undefined) }

SeqsOver(S) == UNION { [1..n -> S] : n \in 0..MaxRows }

\* The worked example of the documentation: items a1 (no slug) and other
\* (slug "y"), and three rows naming the first by id, the second by slug
\* and nothing.
ExampleStore == << [id |-> "a1", fieldData |-> NoSlug],
                  [id |-> "other", fieldData |-> WithSlug("y")] >>
ExampleRows == << [id |-> "a1", title |-> "X"],
                 [slug |-> "y", title |-> "Y"],
                 [title |-> "Z"] >>

RemoteErrors == {"Rate limit hit"}
CallbackError == "onProgress threw"

VARIABLES
  store,          \* the remote collection: sequence of items
  items,          \* upsertItems argument: the transformed rows
  onProgress,     \* upsertItems argument: TRUE when a callback is passed
  pc,             \* where the async function is suspended
  offset,         \* getAllItems: offset
  allItems,       \* getAllItems: allItems
  existingItems,  \* upsertItems: existingItems
  slugToId,       \* upsertItems: slugToId
  idSet,          \* upsertItems: idSet
  i,              \* upsertItems: loop index (0-based, as in the code)
  results,        \* upsertItems: results
  errors,         \* upsertItems: errors
  ret,            \* the value upsertItems resolved with, or Null
  trace           \* calls, responses, delays and progress events, in order

runVars == <<store, items, onProgress, pc, offset, allItems, existingItems,
             slugToId, idSet, i, results, errors, ret, trace>>

\* The React state of App and of the mounted DataImporter, the asynchronous
\* work they have started, and what the last handler did.
VARIABLES
  apiToken,           \* App: apiToken
  isConnecting,       \* App: isConnecting
  connectionError,    \* App: connectionError
  sites,              \* App: sites (sequence of site ids)
  selectedSite,       \* App: selectedSite
  storedToken,        \* localStorage: webflow_token
  connects,           \* calls of connect awaiting the remote
  proxy,              \* the last exchange of the proxy function
  catalog,            \* the files the operator has at hand
  activeTab,          \* App: activeTab
  isConnected,        \* App: isConnected
  client,             \* App: client (Null or the token of the WebflowClient)
  collections,        \* App: collections (sequence of collection ids)
  file,               \* DataImporter: file (its name) or Null
  fileType,           \* DataImporter: fileType
  parsedData,         \* DataImporter: parsedData (None or Some(rows))
  headers,            \* DataImporter: headers
  selectedCollection, \* DataImporter: selectedCollection (Null or an id)
  collectionFields,   \* DataImporter: collectionFields (sequence of slugs)
  fieldMapping,       \* DataImporter: fieldMapping, as <<source, target>> pairs
  isImporting,        \* DataImporter: isImporting
  importResults,      \* DataImporter: importResults (None or Some(record))
  isDryRun,           \* DataImporter: isDryRun
  isUpdateMode,       \* DataImporter: isUpdateMode
  error,              \* DataImporter: error
  loads,              \* file reads in progress (Papa.parse / FileReader)
  selects,            \* getCollection requests of handleCollectionSelect in flight
  runs,               \* the import passes runImport started that are in flight
  cms,                \* CMSManager: its state and its loadCollection calls in flight
  last                \* the last handler; of runImport, its path and requests

importerState == <<file, fileType, parsedData, headers, selectedCollection,
                   collectionFields, fieldMapping, isImporting, importResults,
                   isDryRun, isUpdateMode, error>>

connVars == <<apiToken, isConnecting, connectionError, connects, proxy>>
siteVars == <<sites, selectedSite, storedToken>>

uiVars == <<connVars, siteVars, catalog, activeTab, isConnected, client, collections,
            importerState, loads, selects, runs, cms, last>>

vars == <<runVars, uiVars>>


\* ------------------------------------------------------------ helpers
Last(s) == s[Len(s)]

Min(a, b) == IF a < b THEN a ELSE b

\* Array.prototype.slice(from, from + n) on a sequence (0-based from).
Slice(s, from, n) ==
  IF from >= Len(s) THEN << >> ELSE SubSeq(s, from + 1, Min(Len(s), from + n))

\* The remote's answer to list-items(limit, offset).
Page(off) == Slice(store, off, limit)

\* What the remote holds after it accepted updateItem(id, fieldData): the
\* PATCH sets the fields sent and keeps the others.
Merge(old, payload) ==
  [f \in DOMAIN old \cup DOMAIN payload |->
     IF f \in DOMAIN payload THEN payload[f] ELSE old[f]]
ApplyUpdate(st, id, payload) ==
  [k \in 1..Len(st) |->
     IF st[k].id = id
     THEN [id |-> id, fieldData |-> Merge(st[k].fieldData, payload)]
     ELSE st[k]]

\* Line 98: allItems.push(...items).
PushAll(all, page) == all \o page

\* Variant: the loop also stops on a full page.
IsShortPage_Inclusive(page) == Len(page) <= limit

\* Line 99: the test that ends the listing loop.
IsShortPage(page) == Len(page) < limit

\* Variant: the catch block records the 1-based position of the row.
CatchEntry_OneBased(k, msg) ==
  [success |-> FALSE, index |-> k + 1, error |-> msg, item |-> items[k + 1]]

\* Line 215: the entry the catch block appends for row k (0-based).
CatchEntry(k, msg) ==
  [success |-> FALSE, index |-> k, error |-> msg, item |-> items[k + 1]]

\* Variant: the whole row is sent, id included.
RestWithoutId_KeepsId(row) == row

\* `const { id: itemId, ...fieldData } = items[i]`: the rest object.
RestWithoutId(row) == [k \in DOMAIN row \ {"id"} |-> row[k]]

\* Variant: the lookup stores the slug instead of the item's identifier.
BuildSlugToId_StoresSlug(its) ==
  LET slugged == { k \in 1..Len(its) : Truthy(Field(its[k].fieldData, "slug")) }
  IN [s \in { its[k].fieldData["slug"] : k \in slugged } |-> s]

\* The loop of lines 163-168 over the listing: a later item with the same
\* slug overwrites an earlier one.
BuildSlugToId(its) ==
  LET slugged == { k \in 1..Len(its) : Truthy(Field(its[k].fieldData, "slug")) }
      keys == { its[k].fieldData["slug"] : k \in slugged }
      lastOf(s) == CHOOSE k \in slugged :
                     /\ its[k].fieldData["slug"] = s
                     /\ \A m \in slugged : its[m].fieldData["slug"] = s => m <= k
  IN [s \in keys |-> its[lastOf(s)].id]

BuildIdSet(its) == { its[k].id : k \in 1..Len(its) }

\* Variant: the slug lookup is consulted before the id.
ExistingIdFor_SlugFirst(row, ids, slugs) ==
  LET itemId == Field(row, "id")
      slug == Field(row, "slug")
  IN IF Truthy(slug) /\ Truthy(PlainObjectGet(slugs, slug))
     THEN PlainObjectGet(slugs, slug)
     ELSE IF Truthy(itemId) /\ itemId \in ids THEN itemId ELSE Null

\* Variant: the row's id is never checked against the id set.
ExistingIdFor_SlugOnly(row, ids, slugs) ==
  LET slug == Field(row, "slug")
  IN IF Truthy(slug) /\ Truthy(PlainObjectGet(slugs, slug))
     THEN PlainObjectGet(slugs, slug)
     ELSE Null

\* Lines 186-192: the existing item to update, or Null.
ExistingIdFor(row, ids, slugs) ==
  LET itemId == Field(row, "id")
      fieldData == RestWithoutId(row)
      slug == Field(fieldData, "slug")
  IN IF Truthy(itemId) /\ itemId \in ids THEN itemId
     ELSE IF Truthy(slug) /\ Truthy(PlainObjectGet(slugs, slug))
          THEN PlainObjectGet(slugs, slug)
          ELSE Null

\* Lines 184-204 up to the await: the remote write issued for row k (0-based).
WriteCall(k, ids, slugs) ==
  LET row == items[k + 1]
      existingId == ExistingIdFor(row, ids, slugs)
  IN [kind |-> IF Truthy(existingId) THEN "update" ELSE "create",
      row |-> k,
      target |-> existingId,
      payload |-> RestWithoutId(row)]

\* Lines 159 and 170: the events that carry a phase and a message only.
PhaseEvent(phase) == [kind |-> "progress", phase |-> phase]

ProgressEvent(phase, current, total) ==
  [kind |-> "progress", phase |-> phase, current |-> current, total |-> total]

\* Variant: the event carries the 0-based index of the row.
RowProgress_ZeroBased(k, n) == ProgressEvent("importing", k, n)

\* Line 208: the event after the write of row k (0-based) of n succeeded.
RowProgress(k, n) == ProgressEvent("importing", k + 1, n)

Debug(its) ==
  [existingCount |-> Len(its),
   existingIds |-> [k \in 1..Min(DebugSample, Len(its)) |-> its[k].id],
   existingSlugs |-> [k \in 1..Min(DebugSample, Len(its)) |->
                        Field(its[k].fieldData, "slug")],
   incomingIds |-> SelectSeq([k \in 1..Min(DebugSample, Len(items)) |->
                        Field(items[k], "id")], Truthy),
   incomingSlugs |-> SelectSeq([k \in 1..Min(DebugSample, Len(items)) |->
                        Field(items[k], "slug")], Truthy)]

IsUpdated(r) == r.action = "updated"
IsCreated(r) == r.action = "created"

\* Variant: the two counts are taken from the other tag.
ReturnValue_SwapsCounts(res, errs) ==
  [results |-> res, errors |-> errs, total |-> Len(items),
   updated |-> Len(SelectSeq(res, IsCreated)),
   created |-> Len(SelectSeq(res, IsUpdated)),
   debug |-> Debug(existingItems')]

\* Lines 219-222.
ReturnValue(res, errs) ==
  [results |-> res, errors |-> errs, total |-> Len(items),
   updated |-> Len(SelectSeq(res, IsUpdated)),
   created |-> Len(SelectSeq(res, IsCreated)),
   debug |-> Debug(existingItems')]

\* May the callback throw at this call?  Only a callback that was passed.
Throws == IF onProgress THEN BOOLEAN ELSE {FALSE}

\* trace after `if (onProgress) onProgress(ev)`.
Notify(tr, ev) == IF onProgress THEN Append(tr, ev) ELSE tr

\* Control reaches the loop head of line 181 with i = k: either the write
\* of row k is issued, or the loop is over and the function returns.
LoopHead(k, res, errs, tr, ids, slugs) ==
  /\ i' = k
  /\ results' = res
  /\ errors' = errs
  /\ IF k < Len(items)
     THEN /\ trace' = Append(tr, WriteCall(k, ids, slugs))
          /\ pc' = "awaitWrite"
          /\ ret' = ret
     ELSE /\ trace' = tr
          /\ pc' = "returned"
          /\ ret' = ReturnValue(res, errs)

\* =========================================================== Data Import
\* A state value that is either null or an array / object.
None == << >>
Some(v) == <<v>>
IsSome(o) == o /= None
Get(o) == o[1]

\* {} and obj[key] = value
EmptyObject == [k \in {} |-> ""]
Put(obj, key, value) ==
  [k \in DOMAIN obj \cup {key} |-> IF k = key THEN value ELSE obj[k]]

\* Property order of the row objects of an uploaded file.
KeyOrder == <<"id", "Slug">>
RECURSIVE KeysFrom(_, _)
KeysFrom(obj, k) ==
  IF k > Len(KeyOrder) THEN << >>
  ELSE (IF KeyOrder[k] \in DOMAIN obj THEN <<KeyOrder[k]>> ELSE << >>) \o KeysFrom(obj, k + 1)
\* Object.keys(obj)
ObjectKeys(obj) == KeysFrom(obj, 1)

\* String.prototype.toLowerCase on the names that occur
ToLowerCase(str) ==
  IF str = "Slug" THEN "slug" ELSE str

\* The rows of a well-formed file of n rows: the first carries an id, the
\* even ones a slug, the others neither.
FileRow(k) ==
  [id |-> IF k = 1 THEN "i1" ELSE "",
   Slug |-> IF k % 2 = 0 THEN SlugOf(k) ELSE ""]
FileRows(n) == [k \in 1..n |-> FileRow(k)]

\* What the operator can drop on the importer.  `content` says what reading
\* and parsing the file gives: for "rows" the parsed rows; for "malformed" a
\* CSV whose second line has too few fields, or a text that is not JSON;
\* for "unreadable" a file the FileReader cannot read.
Files ==
  { [name |-> "items.CSV", content |-> "rows", rows |-> FileRows(2)],
    [name |-> "broken.csv", content |-> "malformed", rows |-> << >>],
    [name |-> "gone.csv", content |-> "unreadable", rows |-> << >>],
    [name |-> "items.json", content |-> "rows",
     rows |-> <<[id |-> "i1", Slug |-> "y"], [Slug |-> "z"]>>],
    [name |-> "broken.json", content |-> "malformed", rows |-> << >>],
    [name |-> "notes.txt", content |-> "rows", rows |-> << >>] }

\* uploadedFile.name.split('.').pop().toLowerCase()
Extension(name) ==
  CASE name \in {"items.CSV", "broken.csv", "gone.csv"} -> "csv"
    [] name \in {"items.json", "broken.json"} -> "json"
    [] OTHER -> "txt"

\* Papa.parse(file, {header: true, ...}): which callback the library calls,
\* and with what.  The error callback is the FileReader's; what the parser
\* finds wrong with a line is reported in results.errors of the complete
\* callback, next to the rows it could build (a line with too few fields
\* gives a row without the missing properties).
PapaParse(f) ==
  CASE f.content = "unreadable" ->
         [callback |-> "error", message |-> "NotReadableError"]
    [] f.content = "malformed" ->
         [callback |-> "complete",
          data |-> <<FileRow(1), [id |-> "i2"]>>,
          errors |-> <<"TooFewFields">>,
          fields |-> KeyOrder]
    [] OTHER ->
         [callback |-> "complete", data |-> f.rows, errors |-> << >>,
          fields |-> KeyOrder]

\* JSON.parse(e.target.result) followed by Array.isArray(data) ? data : [data]
JSONParse(f) ==
  IF f.content = "malformed"
  THEN [threw |-> TRUE, message |-> "Unexpected token"]
  ELSE [threw |-> FALSE, dataArray |-> f.rows]

\* Tokens the operator may type: none, one of 20 characters, one of 21.
EmptyToken == ""
ShortToken == "12345678901234567890"
ValidToken == "123456789012345678901"
Tokens == {EmptyToken, ShortToken, ValidToken}

\* `proxy` before the function was called.
NoExchange == [event |-> Null]

\* The sites getSites answers, the collections of the connected site and
\* the fields getCollection answers for them.
Sites == <<"site1">>
SiteCollections == <<"c1">>
FieldsOf(collectionId) ==
  <<[slug |-> "name", displayName |-> "Name"],
    [slug |-> "slug", displayName |-> "Slug"]>>

\* details.fields?.find(f => f.slug.toLowerCase() === header.toLowerCase()
\*                          || f.displayName?.toLowerCase() === ...)
MatchingField(fields, header) ==
  LET hits == { k \in 1..Len(fields) :
                  \/ ToLowerCase(fields[k].slug) = ToLowerCase(header)
                  \/ ToLowerCase(fields[k].displayName) = ToLowerCase(header) }
  IN  IF hits = {} THEN Undefined
      ELSE fields[CHOOSE k \in hits : \A m \in hits : k <= m].slug

\* fieldMapping is an object; its entries, in insertion order, are kept as
\* <<source, target>> pairs.
MappingHas(mapping, source) == \E k \in 1..Len(mapping) : mapping[k][1] = source
SetMapping(mapping, source, target) ==
  IF MappingHas(mapping, source)
  THEN [k \in 1..Len(mapping) |->
          IF mapping[k][1] = source THEN <<source, target>> ELSE mapping[k]]
  ELSE Append(mapping, <<source, target>>)
RECURSIVE AutoMapping(_, _)
AutoMapping(hdrs, fields) ==
  IF hdrs = << >> THEN << >>
  ELSE LET rest == AutoMapping(SubSeq(hdrs, 1, Len(hdrs) - 1), fields)
           header == hdrs[Len(hdrs)]
           matchingField == MatchingField(fields, header)
       IN  IF Truthy(matchingField)
           THEN SetMapping(rest, header, matchingField)
           ELSE rest

\* Object.values(fieldMapping).filter(Boolean).length
MappedCount(mapping) ==
  Cardinality({ k \in 1..Len(mapping) : Truthy(mapping[k][2]) })


\* ------------------------------------------------- DataImporter handlers
\* transformData: one row
RECURSIVE ApplyMapping(_, _, _)
ApplyMapping(transformed, entries, row) ==
  IF entries = << >> THEN transformed
  ELSE LET source == entries[1][1]
           target == entries[1][2]
           next == IF Truthy(target) /\ Field(row, source) /= Undefined
                   THEN Put(transformed, target, row[source])
                   ELSE transformed
       IN  ApplyMapping(next, Tail(entries), row)

TransformRow(row, mapping, updateMode) ==
  LET transformed == IF updateMode /\ Truthy(Field(row, "id"))
                     THEN Put(EmptyObject, "id", row["id"])
                     ELSE EmptyObject
  IN  ApplyMapping(transformed, mapping, row)

TransformData(data, mapping, updateMode) ==
  [k \in 1..Len(data) |-> TransformRow(data[k], mapping, updateMode)]

\* The three filters of the dry-run branch.
WithId(d) == Truthy(Field(d, "id"))
WithSlugOnly_IgnoresId(d) == Truthy(Field(d, "slug"))

WithSlugOnly(d) == Truthy(Field(d, "slug")) /\ ~ Truthy(Field(d, "id"))

PreviewRows == 5

DryRunResults(transformedData, updateMode) ==
  LET rows == 1..Len(transformedData)
      itemsWithId == Cardinality({ k \in rows : WithId(transformedData[k]) })
      itemsWithSlug == Cardinality({ k \in rows : WithSlugOnly(transformedData[k]) })
  IN  [mode |-> "dry-run",
       total |-> Len(transformedData),
       preview |-> Slice(transformedData, 0, PreviewRows),
       success |-> Len(transformedData),
       errors |-> << >>,
       isUpdateMode |-> updateMode,
       itemsWithId |-> itemsWithId,
       itemsWithSlug |-> itemsWithSlug,
       itemsNew |-> Len(transformedData) - itemsWithId - itemsWithSlug]

\* The argument runImport is called with: the click event of the primary
\* button, or false from the Run Live button.
ClickEvent == "<click event>"
False == "<false>"

\* const dryRun = dryRunOverride !== undefined ? dryRunOverride : isDryRun,
\* as the condition of `if (dryRun)`
DryRunOf(dryRunOverride, checkbox) ==
  IF dryRunOverride /= Undefined
  THEN Truthy(dryRunOverride) /\ dryRunOverride /= False
  ELSE checkbox

\* if (dryRun) ... else if (isUpdateMode) ... else ...
ImportPath_ChecksModeFirst(dryRun, updateMode) ==
  IF updateMode THEN "upsert" ELSE IF dryRun THEN "dry-run" ELSE "create"

ImportPath(dryRun, updateMode) ==
  IF dryRun THEN "dry-run" ELSE IF updateMode THEN "upsert" ELSE "create"

\* The import pass a live runImport starts.  upsertItems first lists the
\* collection, createItems starts with its first row; the request named in
\* `issued` is the one the call sends before it first awaits.
NewRun(path, transformedData) ==
  [kind |-> path,
   total |-> Len(transformedData),
   phase |-> IF path = "upsert" THEN "list" ELSE "write",
   i |-> 0,
   failed |-> << >>,
   mounted |-> TRUE]
Free == [phase |-> "free"]
FirstRequest(path) == IF path = "upsert" THEN "list" ELSE "create"

InFlight(r) == r.phase \in {"list", "write"}
FreeSlots == { k \in 1..MaxRuns : ~ InFlight(runs[k]) }
FirstFree == CHOOSE k \in FreeSlots : \A m \in FreeSlots : k <= m

\* `last` after a handler other than runImport.
Other == [op |-> "other"]

\* What is on screen.
Visible == activeTab = "import" /\ isConnected
Step1 == Visible /\ parsedData = None
Step2 == Visible /\ IsSome(parsedData) /\ importResults = None
Step3 == Visible /\ IsSome(importResults)
MappingShown ==
  Step2 /\ Truthy(selectedCollection) /\ Len(collectionFields) > 0

\* runImport(dryRunOverride), called with importResults as `before`.
RunImport(dryRunOverride, before) ==
  IF ~ Truthy(selectedCollection) \/ parsedData = None \/ Len(Get(parsedData)) = 0
  THEN /\ importResults' = before
       /\ last' = [op |-> "runImport", path |-> "return", issued |-> << >>]
       /\ UNCHANGED <<isImporting, error, runs>>
  ELSE LET dryRun == DryRunOf(dryRunOverride, isDryRun)
           transformedData == TransformData(Get(parsedData), fieldMapping, isUpdateMode)
           path == ImportPath(dryRun, isUpdateMode)
       IN  /\ error' = Null
           /\ IF path = "dry-run"
              THEN /\ importResults' = Some(DryRunResults(transformedData, isUpdateMode))
                   /\ isImporting' = FALSE
                   /\ runs' = runs
                   /\ last' = [op |-> "runImport", path |-> path, dryRun |-> dryRun,
                               issued |-> << >>]
              ELSE /\ FreeSlots /= {}
                   /\ importResults' = before
                   /\ isImporting' = TRUE
                   /\ runs' = [runs EXCEPT ![FirstFree] = NewRun(path, transformedData)]
                   /\ last' = [op |-> "runImport", path |-> path, dryRun |-> dryRun,
                               issued |-> <<FirstRequest(path)>>]

\* The primary button of step 2: onClick={runImport}
ClickRun ==
  /\ MappingShown
  /\ ~ isImporting
  /\ MappedCount(fieldMapping) > 0
  /\ RunImport(ClickEvent, importResults)
  /\ UNCHANGED <<runVars, cms, connVars, siteVars, catalog, activeTab, isConnected, client, collections, file,
                 fileType, parsedData, headers, selectedCollection,
                 collectionFields, fieldMapping, isDryRun, isUpdateMode,
                 loads, selects>>

\* The Run Live button of a dry-run result:
\* setIsDryRun(false); setImportResults(null); runImport(false)
ClickRunLive ==
  /\ Step3
  /\ Get(importResults).mode = "dry-run"
  /\ isDryRun' = FALSE
  /\ RunImport(False, None)
  /\ UNCHANGED <<runVars, cms, connVars, siteVars, catalog, activeTab, isConnected, client, collections, file,
                 fileType, parsedData, headers, selectedCollection,
                 collectionFields, fieldMapping, isUpdateMode, loads, selects>>


RemoveAt(seq, k) == SubSeq(seq, 1, k - 1) \o SubSeq(seq, k + 1, Len(seq))

\* processFile(uploadedFile), from the drop zone or the file input of step 1
ProcessFile ==
  /\ Step1
  /\ \E f \in catalog :
       LET extension == Extension(f.name)
       IN  /\ importResults' = None
           /\ IF extension \in {"csv", "json"}
              THEN /\ Len(loads) < MaxPending
                   /\ error' = Null
                   /\ file' = f.name
                   /\ fileType' = extension
                   /\ loads' = Append(loads, f)
              ELSE /\ error' = "Unsupported file type. Please upload a CSV or JSON file."
                   /\ file' = Null
                   /\ UNCHANGED <<fileType, loads>>
           /\ last' = [op |-> "processFile", file |-> f.name]
  /\ UNCHANGED <<runVars, cms, connVars, siteVars, catalog, activeTab, isConnected, client, collections,
                 parsedData, headers, selectedCollection, collectionFields,
                 fieldMapping, isImporting, isDryRun, isUpdateMode, selects, runs>>

\* The complete / error callbacks of Papa.parse
CsvParsed ==
  /\ \E k \in 1..Len(loads) :
       LET f == loads[k]
           parsed == PapaParse(f)
       IN  /\ Extension(f.name) = "csv"
           /\ loads' = RemoveAt(loads, k)
           /\ IF parsed.callback = "complete"
              THEN /\ parsedData' = Some(parsed.data)
                   /\ headers' = parsed.fields
                   /\ error' = error
              ELSE /\ error' = "Failed to parse CSV: " \o parsed.message
                   /\ UNCHANGED <<parsedData, headers>>
           /\ last' = Other
  /\ UNCHANGED <<runVars, cms, connVars, siteVars, catalog, activeTab, isConnected, client, collections, file,
                 fileType, selectedCollection, collectionFields, fieldMapping,
                 isImporting, importResults, isDryRun, isUpdateMode, selects, runs>>

\* reader.onload of the JSON branch
JsonLoaded ==
  /\ \E k \in 1..Len(loads) :
       LET f == loads[k]
           parsed == JSONParse(f)
       IN  /\ Extension(f.name) = "json"
           /\ loads' = RemoveAt(loads, k)
           /\ IF parsed.threw
              THEN /\ error' = "Failed to parse JSON: " \o parsed.message
                   /\ UNCHANGED <<parsedData, headers>>
              ELSE /\ parsedData' = Some(parsed.dataArray)
                   /\ headers' = IF Len(parsed.dataArray) > 0
                                 THEN ObjectKeys(parsed.dataArray[1])
                                 ELSE headers
                   /\ error' = error
           /\ last' = Other
  /\ UNCHANGED <<runVars, cms, connVars, siteVars, catalog, activeTab, isConnected, client, collections, file,
                 fileType, selectedCollection, collectionFields, fieldMapping,
                 isImporting, importResults, isDryRun, isUpdateMode, selects, runs>>

\* collections.find(c => c.id === collectionId)
FindCollection(collectionId) ==
  IF \E k \in 1..Len(collections) : collections[k] = collectionId
  THEN collectionId ELSE Undefined

\* handleCollectionSelect(collectionId), up to its await
HandleCollectionSelect ==
  /\ Step2
  /\ \E collectionId \in {""} \cup { collections[k] : k \in 1..Len(collections) } :
       LET collection == FindCollection(collectionId)
       IN  /\ selectedCollection' = collection
           /\ IF client /= Null /\ Truthy(collection)
              THEN /\ Len(selects) < MaxPending
                   /\ selects' = Append(selects, [id |-> collection, headers |-> headers])
                   /\ last' = Other
              ELSE /\ selects' = selects
                   /\ last' = Other
  /\ UNCHANGED <<runVars, cms, connVars, siteVars, catalog, activeTab, isConnected, client, collections, file,
                 fileType, parsedData, headers, collectionFields, fieldMapping,
                 isImporting, importResults, isDryRun, isUpdateMode, error,
                 loads, runs>>

\* handleCollectionSelect after its await: getCollection answered
CollectionLoaded ==
  /\ selects /= << >>
  /\ LET details == FieldsOf(selects[1].id)
     IN  /\ collectionFields' = details
         /\ fieldMapping' = AutoMapping(selects[1].headers, details)
  /\ selects' = Tail(selects)
  /\ last' = Other
  /\ UNCHANGED <<runVars, cms, connVars, siteVars, catalog, activeTab, isConnected, client, collections, file,
                 fileType, parsedData, headers, selectedCollection, isImporting,
                 importResults, isDryRun, isUpdateMode, error, loads, runs>>

\* handleCollectionSelect after its await: getCollection failed
CollectionFailed ==
  /\ selects /= << >>
  /\ \E msg \in RemoteErrors : error' = "Failed to load collection: " \o msg
  /\ selects' = Tail(selects)
  /\ last' = Other
  /\ UNCHANGED <<runVars, cms, connVars, siteVars, catalog, activeTab, isConnected, client, collections, file,
                 fileType, parsedData, headers, selectedCollection,
                 collectionFields, fieldMapping, isImporting, importResults,
                 isDryRun, isUpdateMode, loads, runs>>

\* updateMapping(header, e.target.value)
UpdateMapping ==
  /\ MappingShown
  /\ \E h \in 1..Len(headers) :
       \E target \in {""} \cup { collectionFields[k].slug : k \in 1..Len(collectionFields) } :
         fieldMapping' = SetMapping(fieldMapping, headers[h], target)
  /\ last' = Other
  /\ UNCHANGED <<runVars, cms, connVars, siteVars, catalog, activeTab, isConnected, client, collections, file,
                 fileType, parsedData, headers, selectedCollection,
                 collectionFields, isImporting, importResults, isDryRun,
                 isUpdateMode, error, loads, selects, runs>>

\* The two mode buttons: setIsUpdateMode(false) / setIsUpdateMode(true)
SetIsUpdateMode ==
  /\ Step2
  /\ Truthy(selectedCollection)
  /\ \E b \in BOOLEAN : isUpdateMode' = b
  /\ last' = Other
  /\ UNCHANGED <<runVars, cms, connVars, siteVars, catalog, activeTab, isConnected, client, collections, file,
                 fileType, parsedData, headers, selectedCollection,
                 collectionFields, fieldMapping, isImporting, importResults,
                 isDryRun, error, loads, selects, runs>>

\* The dry-run checkbox: setIsDryRun(e.target.checked)
SetIsDryRun ==
  /\ MappingShown
  /\ isDryRun' = ~ isDryRun
  /\ last' = Other
  /\ UNCHANGED <<runVars, cms, connVars, siteVars, catalog, activeTab, isConnected, client, collections, file,
                 fileType, parsedData, headers, selectedCollection,
                 collectionFields, fieldMapping, isImporting, importResults,
                 isUpdateMode, error, loads, selects, runs>>

\* reset(): the Clear button of step 2 and the Start Over button of step 3
Reset ==
  /\ Step2 \/ Step3
  /\ file' = Null
  /\ fileType' = Null
  /\ parsedData' = None
  /\ headers' = << >>
  /\ selectedCollection' = Null
  /\ collectionFields' = << >>
  /\ fieldMapping' = << >>
  /\ importResults' = None
  /\ isUpdateMode' = FALSE
  /\ error' = Null
  /\ last' = Other
  /\ UNCHANGED <<runVars, cms, connVars, siteVars, catalog, activeTab, isConnected, client, collections,
                 isImporting, isDryRun, loads, selects, runs>>

\* The close button of the error banner: setError(null)
DismissError ==
  /\ Visible
  /\ Truthy(error)
  /\ error' = Null
  /\ last' = Other
  /\ UNCHANGED <<runVars, cms, connVars, siteVars, catalog, activeTab, isConnected, client, collections, file,
                 fileType, parsedData, headers, selectedCollection,
                 collectionFields, fieldMapping, isImporting, importResults,
                 isDryRun, isUpdateMode, loads, selects, runs>>


\* ------------------------------------------------------------ initial
\* useState initial values of DataImporter (lines 10-23).
ImporterInitialState ==
  /\ file = Null
  /\ fileType = Null
  /\ parsedData = None
  /\ headers = << >>
  /\ selectedCollection = Null
  /\ collectionFields = << >>
  /\ fieldMapping = << >>
  /\ isImporting = FALSE
  /\ importResults = None
  /\ isDryRun = TRUE
  /\ isUpdateMode = FALSE
  /\ error = Null

\* useState initial values of CMSManager (part_003 lines 25-30); `loads`
\* holds the calls of loadCollection that await the remote.
CmsInitialState ==
  [selectedCollection |-> Null,
   collectionDetails |-> None,
   items |-> << >>,
   isLoading |-> FALSE,
   isLoadingItems |-> FALSE,
   error |-> Null,
   loads |-> << >>]

\* The view is not part of a run of the client alone.
NoView ==
  /\ apiToken = ""
  /\ isConnecting = FALSE
  /\ connectionError = Null
  /\ sites = << >>
  /\ selectedSite = Null
  /\ storedToken = Null
  /\ connects = << >>
  /\ proxy = NoExchange
  /\ catalog = {}
  /\ activeTab = "cms"
  /\ isConnected = FALSE
  /\ client = Null
  /\ collections = << >>
  /\ ImporterInitialState
  /\ loads = << >>
  /\ selects = << >>
  /\ runs = [k \in 1..MaxRuns |-> Free]
  /\ cms = CmsInitialState
  /\ last = Other

Init ==
  /\ NoView
  /\ \/ store \in SmallStores /\ items \in SeqsOver(Rows)
     \/ store \in PagedStores /\ items \in SeqsOver(PagedRows)
     \/ store = ExampleStore /\ items = ExampleRows
  /\ onProgress \in BOOLEAN
  /\ pc = "idle"
  /\ offset = 0
  /\ allItems = << >>
  /\ existingItems = << >>
  /\ slugToId = << >>
  /\ idSet = {}
  /\ i = 0
  /\ results = << >>
  /\ errors = << >>
  /\ ret = Null
  /\ trace = << >>

\* ------------------------------------------------------------ actions
\* Lines 155-160 and getAllItems lines 92-97: the first listing request.
StartUpsert ==
  /\ UNCHANGED uiVars
  /\ pc = "idle"
  /\ \E throws \in Throws :
       IF throws
       THEN /\ pc' = "rejected"
            /\ trace' = Notify(trace, PhaseEvent("fetching"))
       ELSE /\ pc' = "awaitList"
            /\ trace' = Append(Notify(trace, PhaseEvent("fetching")),
                               [kind |-> "list", limit |-> limit, offset |-> 0])
  /\ UNCHANGED <<store, items, onProgress, offset, allItems, existingItems,
                 slugToId, idSet, i, results, errors, ret>>

\* getItems resolves: lines 97-101; on a short page getAllItems returns and
\* upsertItems runs on (lines 161-181) to the first write or to its return.
ListOk ==
  /\ UNCHANGED uiVars
  /\ pc = "awaitList"
  /\ LET page == Page(offset)
         all == PushAll(allItems, page)
     IN /\ allItems' = all
        /\ IF IsShortPage(page)
           THEN /\ offset' = offset
                /\ existingItems' = all
                /\ slugToId' = BuildSlugToId(all)
                /\ idSet' = BuildIdSet(all)
                /\ \E throws \in Throws :
                     LET tr == Notify(Append(trace, [kind |-> "page", count |-> Len(page)]),
                                      PhaseEvent("importing"))
                     IN IF throws
                        THEN /\ pc' = "rejected"
                             /\ trace' = tr
                             /\ UNCHANGED <<i, results, errors, ret>>
                        ELSE LoopHead(0, results, errors, tr,
                                      BuildIdSet(all), BuildSlugToId(all))
           ELSE /\ offset' = offset + limit
                /\ pc' = "listDelay"
                /\ trace' = trace \o << [kind |-> "page", count |-> Len(page)],
                                        [kind |-> "delay", ms |-> ListDelayMs] >>
                /\ UNCHANGED <<existingItems, slugToId, idSet, i, results, errors, ret>>
  /\ UNCHANGED <<store, items, onProgress>>

\* getItems rejects: nothing catches it in getAllItems or upsertItems.
ListFail ==
  /\ UNCHANGED uiVars
  /\ pc = "awaitList"
  /\ \E msg \in RemoteErrors :
       trace' = Append(trace, [kind |-> "error", msg |-> msg])
  /\ pc' = "rejected"
  /\ UNCHANGED <<store, items, onProgress, offset, allItems, existingItems,
                 slugToId, idSet, i, results, errors, ret>>

\* The timeout of line 101 fires: the next listing request (line 97).
ListDelayDone ==
  /\ UNCHANGED uiVars
  /\ pc = "listDelay"
  /\ pc' = "awaitList"
  /\ trace' = Append(trace, [kind |-> "list", limit |-> limit, offset |-> offset])
  /\ UNCHANGED <<store, items, onProgress, offset, allItems, existingItems,
                 slugToId, idSet, i, results, errors, ret>>

\* The remote accepts the write of row i: lines 206-213 (or the catch of
\* line 215 when the callback throws).  An update is accepted only for an
\* item the collection holds; the result it answers is the item as sent.
WriteOk ==
  /\ UNCHANGED uiVars
  /\ pc = "awaitWrite"
  /\ UNCHANGED <<items, onProgress, offset, allItems, existingItems, slugToId, idSet>>
  /\ LET call == Last(trace)
         n == Len(items)
         data == IF call.kind = "update"
                 THEN [id |-> call.target, fieldData |-> call.payload]
                 ELSE [id |-> NewId(Len(store) + 1), fieldData |-> call.payload]
         res == Append(results,
                  [success |-> TRUE, index |-> i, data |-> data,
                   action |-> IF call.kind = "update" THEN "updated" ELSE "created"])
         tr == Notify(Append(trace, [kind |-> "ok", row |-> i]),
                      RowProgress(i, n))
     IN /\ call.kind = "update" => \E k \in 1..Len(store) : store[k].id = call.target
        /\ store' = IF call.kind = "create" THEN Append(store, data)
                     ELSE ApplyUpdate(store, call.target, call.payload)
        /\ \E throws \in Throws :
             IF throws
             THEN LoopHead(i + 1, res,
                    Append(errors, CatchEntry(i, CallbackError)),
                    tr, idSet, slugToId)
             ELSE IF i < n - 1
                  THEN /\ pc' = "rowDelay"
                       /\ trace' = Append(tr, [kind |-> "delay", ms |-> RowDelayMs])
                       /\ results' = res
                       /\ UNCHANGED <<i, errors, ret>>
                  ELSE LoopHead(i + 1, res, errors, tr, idSet, slugToId)

\* Variant: a failed write is rethrown and the run is rejected.
WriteFail_Rethrows ==
  /\ UNCHANGED uiVars
  /\ pc = "awaitWrite"
  /\ \E msg \in RemoteErrors :
       trace' = Append(trace, [kind |-> "error", row |-> i, msg |-> msg])
  /\ pc' = "rejected"
  /\ UNCHANGED <<store, items, onProgress, offset, allItems, existingItems,
                 slugToId, idSet, i, results, errors, ret>>

\* Variant: a failed write is tried again.
WriteFail_Retries ==
  /\ UNCHANGED uiVars
  /\ pc = "awaitWrite"
  /\ UNCHANGED <<store, items, onProgress, offset, allItems, existingItems,
                 slugToId, idSet>>
  /\ \E msg \in RemoteErrors :
       LoopHead(i, results, errors,
         Append(trace, [kind |-> "error", row |-> i, msg |-> msg]),
         idSet, slugToId)

\* The write of row i fails: the catch of lines 214-216, then the next row.
WriteFail ==
  /\ UNCHANGED uiVars
  /\ pc = "awaitWrite"
  /\ UNCHANGED <<store, items, onProgress, offset, allItems, existingItems,
                 slugToId, idSet>>
  /\ \E msg \in RemoteErrors :
       LoopHead(i + 1, results,
         Append(errors, CatchEntry(i, msg)),
         Append(trace, [kind |-> "error", row |-> i, msg |-> msg]),
         idSet, slugToId)

\* The timeout of line 212 fires: the loop goes on with the next row.
RowDelayDone ==
  /\ UNCHANGED uiVars
  /\ pc = "rowDelay"
  /\ UNCHANGED <<store, items, onProgress, offset, allItems, existingItems,
                 slugToId, idSet>>
  /\ LoopHead(i + 1, results, errors, trace, idSet, slugToId)

Next ==
  \/ StartUpsert
  \/ ListOk
  \/ ListFail
  \/ ListDelayDone
  \/ WriteOk
  \/ WriteFail
  \/ RowDelayDone

Spec == Init /\ [][Next]_vars

TypeOK ==
  /\ pc \in {"idle", "awaitList", "listDelay", "awaitWrite", "rowDelay",
             "returned", "rejected"}
  /\ i \in 0..Len(items)
  /\ Len(results) + Len(errors) <= 2 * Len(items)

\* ------------------------------------------------------------ re-running
\* The operator imports the same file again: runImport calls upsertItems a
\* second time with the same rows, against the collection as the first run
\* left it.  The entry added to the trace keeps what the first run returned.
Reran == \E k \in 1..Len(trace) : trace[k].kind = "rerun"

Rerun ==
  /\ UNCHANGED uiVars
  /\ pc = "returned"
  /\ ~ Reran
  /\ pc' = "idle"
  /\ trace' = Append(trace, [kind |-> "rerun", first |-> ret])
  /\ offset' = 0
  /\ allItems' = << >>
  /\ existingItems' = << >>
  /\ slugToId' = << >>
  /\ idSet' = {}
  /\ i' = 0
  /\ results' = << >>
  /\ errors' = << >>
  /\ ret' = Null
  /\ UNCHANGED <<store, items, onProgress>>

\* Collections of no, one and two items, and rows that name the first item
\* by id or no item, with a slug that an item may hold, one that none holds,
\* or no slug.
RerunStores == SmallStores \cup { MkStore(1, head) : head \in HeadSlugs }
RerunRows == { MkRow(a, b) : a \in {Undefined, "i1"}, b \in RowSlugs \cup {"z"} }

InitRerun ==
  /\ NoView
  /\ store \in RerunStores
  /\ items \in SeqsOver(RerunRows)
  /\ onProgress = FALSE
  /\ pc = "idle"
  /\ offset = 0
  /\ allItems = << >>
  /\ existingItems = << >>
  /\ slugToId = << >>
  /\ idSet = {}
  /\ i = 0
  /\ results = << >>
  /\ errors = << >>
  /\ ret = Null
  /\ trace = << >>

NextRerun ==
  \/ StartUpsert
  \/ ListOk
  \/ ListFail
  \/ WriteOk
  \/ WriteFail
  \/ RowDelayDone
  \/ Rerun

SpecRerun == InitRerun /\ [][NextRerun]_vars

\* ------------------------------------------------------------ createItems
\* One run of WebflowClient.createItems (lines 132-151): no listing, no
\* lookup, no callback; every row is sent whole to createItem.
CreateDelayMs == 150

\* Line 138: the create call issued for row k (0-based).
CreateCall(k) ==
  [kind |-> "create", row |-> k, target |-> Null, payload |-> items[k + 1]]

\* Line 150.
CreateReturnValue(res, errs) ==
  [results |-> res, errors |-> errs, total |-> Len(items)]

\* Control reaches the loop head of line 136 with i = k.
CreateLoopHead(k, res, errs, tr) ==
  /\ i' = k
  /\ results' = res
  /\ errors' = errs
  /\ IF k < Len(items)
     THEN /\ trace' = Append(tr, CreateCall(k))
          /\ pc' = "awaitCreate"
          /\ ret' = ret
     ELSE /\ trace' = tr
          /\ pc' = "createReturned"
          /\ ret' = CreateReturnValue(res, errs)

InitCreate ==
  /\ NoView
  /\ store \in SmallStores
  /\ items \in SeqsOver(Rows)
  /\ onProgress = FALSE
  /\ pc = "createIdle"
  /\ offset = 0
  /\ allItems = << >>
  /\ existingItems = << >>
  /\ slugToId = << >>
  /\ idSet = {}
  /\ i = 0
  /\ results = << >>
  /\ errors = << >>
  /\ ret = Null
  /\ trace = << >>

\* Lines 133-138: the call of createItems up to its first await.
CreateStart ==
  /\ UNCHANGED uiVars
  /\ pc = "createIdle"
  /\ UNCHANGED <<store, items, onProgress, offset, allItems, existingItems,
                 slugToId, idSet>>
  /\ CreateLoopHead(0, results, errors, trace)

\* createItem resolves: lines 139-144.
CreateOk ==
  /\ UNCHANGED uiVars
  /\ pc = "awaitCreate"
  /\ UNCHANGED <<items, onProgress, offset, allItems, existingItems, slugToId, idSet>>
  /\ LET call == Last(trace)
         data == [id |-> NewId(Len(store) + 1), fieldData |-> call.payload]
         res == Append(results,
                  [success |-> TRUE, index |-> i, data |-> data, action |-> "created"])
         tr == Append(trace, [kind |-> "ok", row |-> i])
     IN /\ store' = Append(store, data)
        /\ IF i < Len(items) - 1
           THEN /\ pc' = "createDelay"
                /\ trace' = Append(tr, [kind |-> "delay", ms |-> CreateDelayMs])
                /\ results' = res
                /\ UNCHANGED <<i, errors, ret>>
           ELSE CreateLoopHead(i + 1, res, errors, tr)

\* Variant: the first failure ends the loop.
CreateFail_Stops ==
  /\ UNCHANGED uiVars
  /\ pc = "awaitCreate"
  /\ UNCHANGED <<store, items, onProgress, offset, allItems, existingItems,
                 slugToId, idSet>>
  /\ \E msg \in RemoteErrors :
       CreateLoopHead(Len(items), results,
         Append(errors, CatchEntry(i, msg)),
         Append(trace, [kind |-> "error", row |-> i, msg |-> msg]))

\* createItem rejects: the catch of lines 145-147, then the next row.
CreateFail ==
  /\ UNCHANGED uiVars
  /\ pc = "awaitCreate"
  /\ UNCHANGED <<store, items, onProgress, offset, allItems, existingItems,
                 slugToId, idSet>>
  /\ \E msg \in RemoteErrors :
       CreateLoopHead(i + 1, results,
         Append(errors, CatchEntry(i, msg)),
         Append(trace, [kind |-> "error", row |-> i, msg |-> msg]))

\* The timeout of line 143 fires.
CreateDelayDone ==
  /\ UNCHANGED uiVars
  /\ pc = "createDelay"
  /\ UNCHANGED <<store, items, onProgress, offset, allItems, existingItems,
                 slugToId, idSet>>
  /\ CreateLoopHead(i + 1, results, errors, trace)

NextCreate ==
  \/ CreateStart
  \/ CreateOk
  \/ CreateFail
  \/ CreateDelayDone

SpecCreate == InitCreate /\ [][NextCreate]_vars

\* ------------------------------------------------ App around the importer
\* The tab buttons: setActiveTab(tab).  DataImporter is rendered only while
\* activeTab is 'import'; leaving the tab unmounts it, which discards its
\* state, and returning mounts a new instance.  State updates that callbacks
\* of the unmounted instance make later change nothing.  The same holds of
\* CMSManager and the 'cms' tab.
Tabs == {"cms", "import"}

\* What unmounting the importer does to a pass it started.
Unmounted_Cancelled(r) == Free

Unmounted(r) == [r EXCEPT !.mounted = FALSE]

SwitchTab ==
  /\ \E tab \in Tabs :
       /\ tab /= activeTab
       /\ activeTab' = tab
  /\ IF activeTab = "import"
     THEN /\ file' = Null
          /\ fileType' = Null
          /\ parsedData' = None
          /\ headers' = << >>
          /\ selectedCollection' = Null
          /\ collectionFields' = << >>
          /\ fieldMapping' = << >>
          /\ isImporting' = FALSE
          /\ importResults' = None
          /\ isDryRun' = TRUE
          /\ isUpdateMode' = FALSE
          /\ error' = Null
          /\ loads' = << >>
          /\ selects' = << >>
          /\ runs' = [k \in 1..MaxRuns |->
                        IF InFlight(runs[k]) THEN Unmounted(runs[k])
                        ELSE runs[k]]
     ELSE UNCHANGED <<importerState, loads, selects, runs>>
  /\ cms' = IF activeTab = "cms" THEN CmsInitialState ELSE cms
  /\ last' = Other
  /\ UNCHANGED <<runVars, connVars, siteVars, catalog, isConnected, client, collections>>

\* disconnect()
Disconnect ==
  /\ isConnected
  /\ client' = Null
  /\ sites' = << >>
  /\ selectedSite' = Null
  /\ collections' = << >>
  /\ isConnected' = FALSE
  /\ storedToken' = Null
  /\ last' = Other
  /\ UNCHANGED <<runVars, cms, connVars, catalog, activeTab, importerState, loads,
                 selects, runs>>

\* ------------------------------------------------------------------- App
\* isValidToken(token): token && token.length > 20
IsValidToken_TwentyIsEnough(token) == Truthy(token) /\ Len(token) >= 20

IsValidToken(token) == Truthy(token) /\ Len(token) > 20

\* What the importer leaves alone when App changes.
importerVars == <<catalog, activeTab, importerState, loads, selects, runs>>

\* The token input: setApiToken(e.target.value)
SetApiToken ==
  /\ ~ isConnected
  /\ \E token \in Tokens : apiToken' = token
  /\ last' = Other
  /\ UNCHANGED <<runVars, cms, importerVars, siteVars, isConnecting, connectionError,
                 connects, proxy, isConnected, client, collections>>

\* connect(), from the Connect button or the Enter key, up to its first
\* await: the request of getSites.
Connect ==
  /\ ~ isConnected
  /\ IF ~ IsValidToken(apiToken)
     THEN /\ connectionError' = "Invalid API token format"
          /\ last' = [op |-> "connect", token |-> apiToken, issued |-> << >>]
          /\ UNCHANGED <<isConnecting, connects>>
     ELSE /\ Len(connects) < MaxPending
          /\ isConnecting' = TRUE
          /\ connectionError' = Null
          /\ connects' = Append(connects, [token |-> apiToken, stage |-> "sites"])
          /\ last' = [op |-> "connect", token |-> apiToken, issued |-> <<"getSites">>]
  /\ UNCHANGED <<runVars, cms, importerVars, siteVars, apiToken, proxy, isConnected,
                 client, collections>>

\* connect() after `await webflowClient.getSites()`
SitesLoaded ==
  /\ \E k \in 1..Len(connects) :
       \E sitesData \in {<< >>, Sites} :
         /\ connects[k].stage = "sites"
         /\ client' = connects[k].token
         /\ sites' = sitesData
         /\ isConnected' = TRUE
         /\ storedToken' = connects[k].token
         /\ IF Len(sitesData) > 0
            THEN /\ selectedSite' = sitesData[1]
                 /\ connects' = [connects EXCEPT ![k].stage = "collections"]
                 /\ isConnecting' = isConnecting
            ELSE /\ selectedSite' = selectedSite
                 /\ connects' = RemoveAt(connects, k)
                 /\ isConnecting' = FALSE
  /\ last' = Other
  /\ UNCHANGED <<runVars, cms, importerVars, apiToken, connectionError, proxy,
                 collections>>

\* connect() after `await webflowClient.getCollections(...)`
CollectionsLoaded ==
  /\ \E k \in 1..Len(connects) :
       /\ connects[k].stage = "collections"
       /\ collections' = SiteCollections
       /\ isConnecting' = FALSE
       /\ connects' = RemoveAt(connects, k)
  /\ last' = Other
  /\ UNCHANGED <<runVars, cms, importerVars, siteVars, apiToken, connectionError,
                 proxy, isConnected, client>>

\* connect(): the catch and finally blocks, after either request failed
ConnectFailed ==
  /\ \E k \in 1..Len(connects) :
       \E msg \in RemoteErrors :
         /\ connects[k].stage \in {"sites", "collections"}
         /\ connectionError' = msg
         /\ isConnected' = FALSE
         /\ isConnecting' = FALSE
         /\ connects' = RemoveAt(connects, k)
  /\ last' = Other
  /\ UNCHANGED <<runVars, cms, importerVars, siteVars, apiToken, proxy, client,
                 collections>>

\* handleSiteChange(siteId), from the site select of the header, up to its
\* await: the request of getCollections
HandleSiteChange ==
  /\ isConnected
  /\ \E k \in 1..Len(sites) :
       LET site == sites[k]
       IN  /\ selectedSite' = site
           /\ IF client /= Null
              THEN /\ Len(connects) < MaxPending
                   /\ connects' = Append(connects, [token |-> client, stage |-> "site"])
              ELSE connects' = connects
  /\ last' = Other
  /\ UNCHANGED <<runVars, cms, importerVars, sites, storedToken, apiToken, isConnecting,
                 connectionError, proxy, isConnected, client, collections>>

\* handleSiteChange after its await: setCollections(collectionsData)
SiteCollectionsLoaded ==
  /\ \E k \in 1..Len(connects) :
       /\ connects[k].stage = "site"
       /\ collections' = SiteCollections
       /\ connects' = RemoveAt(connects, k)
  /\ last' = Other
  /\ UNCHANGED <<runVars, cms, importerVars, siteVars, apiToken, isConnecting,
                 connectionError, proxy, isConnected, client>>

\* handleSiteChange: the catch block only logs
SiteCollectionsFailed ==
  /\ \E k \in 1..Len(connects) :
       /\ connects[k].stage = "site"
       /\ connects' = RemoveAt(connects, k)
  /\ last' = Other
  /\ UNCHANGED <<runVars, cms, importerVars, siteVars, apiToken, isConnecting,
                 connectionError, proxy, isConnected, client, collections>>

\* ------------------------------------------------------------ CMSManager
\* The calls of loadCollection that may await the remote at once.
MaxLoads == 2

\* The collections of the site shown in the list, what getCollection answers
\* for one and what getItems answers.
CmsCollections == <<"c1", "c2">>
DetailsOf(collectionId) == [id |-> collectionId, fields |-> FieldsOf(collectionId)]
ItemsOf(collectionId) == <<[id |-> "item", collection |-> collectionId]>>

CmsShown == activeTab = "cms" /\ isConnected

CmsUnchanged ==
  UNCHANGED <<runVars, connVars, siteVars, catalog, activeTab, isConnected, client,
              collections, importerState, loads, selects, runs>>

\* loadCollection(collection), from a click in the list, up to its first
\* await: the request of getCollection
LoadCollection ==
  /\ CmsShown
  /\ Len(cms.loads) < MaxLoads
  /\ \E k \in 1..Len(collections) :
       cms' = [cms EXCEPT !.selectedCollection = collections[k],
                          !.isLoading = TRUE,
                          !.error = Null,
                          !.loads = Append(@, [collection |-> collections[k],
                                               stage |-> "details"])]
  /\ last' = Other
  /\ CmsUnchanged

\* loadCollection after `await client.getCollection(...)`: lines 42-45
DetailsLoaded ==
  /\ \E k \in 1..Len(cms.loads) :
       /\ cms.loads[k].stage = "details"
       /\ cms' = [cms EXCEPT !.collectionDetails = Some(DetailsOf(cms.loads[k].collection)),
                             !.isLoadingItems = TRUE,
                             !.loads[k].stage = "items"]
  /\ last' = Other
  /\ CmsUnchanged

\* loadCollection after `await client.getItems(...)`: line 46 and finally
ItemsLoaded ==
  /\ \E k \in 1..Len(cms.loads) :
       /\ cms.loads[k].stage = "items"
       /\ cms' = [cms EXCEPT !.items = ItemsOf(cms.loads[k].collection),
                             !.isLoading = FALSE,
                             !.isLoadingItems = FALSE,
                             !.loads = RemoveAt(@, k)]
  /\ last' = Other
  /\ CmsUnchanged

\* loadCollection: either request failed; catch and finally
LoadFailed ==
  /\ \E k \in 1..Len(cms.loads) :
       \E msg \in RemoteErrors :
         cms' = [cms EXCEPT !.error = msg,
                            !.isLoading = FALSE,
                            !.isLoadingItems = FALSE,
                            !.loads = RemoveAt(@, k)]
  /\ last' = Other
  /\ CmsUnchanged

\* ----------------------------------------------------------------- proxy
\* What reaches the function: the HTTP method and the body, here by what
\* JSON.parse makes of it (a text that does not parse, or an object with or
\* without endpoint and token).
ProxyBodies ==
  {[json |-> FALSE]}
  \cup [json : {TRUE}, endpoint : {Undefined, "/sites"},
        token : {Undefined, "", ValidToken}]
ProxyEvents == [httpMethod : {"POST", "GET"}, body : ProxyBodies]

\* What the remote API does with a forwarded request: fetch rejects, or it
\* answers with a status and a body that response.json() can parse or not
\* (an empty body, an HTML error page of a gateway).
Upstreams ==
  {[threw |-> TRUE, ok |-> FALSE, status |-> 0, json |-> FALSE, data |-> ""],
   [threw |-> FALSE, ok |-> TRUE, status |-> 200, json |-> TRUE, data |-> "{sites}"],
   [threw |-> FALSE, ok |-> TRUE, status |-> 204, json |-> FALSE, data |-> ""],
   [threw |-> FALSE, ok |-> FALSE, status |-> 429, json |-> TRUE,
    data |-> "{message: Rate limit hit}"],
   [threw |-> FALSE, ok |-> FALSE, status |-> 502, json |-> FALSE,
    data |-> "<html>Bad Gateway</html>"]}

\* The answers of the handler: whether it called fetch, and what it returns.
Answer(statusCode, body, fetched) ==
  [statusCode |-> statusCode, body |-> body, fetched |-> fetched]

\* Variant: the endpoint is checked before the token.
Handler_EndpointFirst(event, upstream) ==
  IF event.httpMethod /= "POST"
    THEN Answer(405, "{error: Method not allowed}", FALSE)
  ELSE IF ~ event.body.json
    THEN Answer(500, "{error: error.message}", FALSE)
  ELSE IF ~ Truthy(event.body.endpoint)
    THEN Answer(400, "{error: Endpoint required}", FALSE)
  ELSE IF ~ Truthy(event.body.token)
    THEN Answer(401, "{error: API token required}", FALSE)
  ELSE IF upstream.threw \/ ~ upstream.json
    THEN Answer(500, "{error: error.message}", TRUE)
  ELSE IF ~ upstream.ok
    THEN Answer(upstream.status, upstream.data, TRUE)
  ELSE Answer(200, upstream.data, TRUE)

\* handler(event)
Handler(event, upstream) ==
  IF event.httpMethod /= "POST"
    THEN Answer(405, "{error: Method not allowed}", FALSE)
  ELSE IF ~ event.body.json
    THEN Answer(500, "{error: error.message}", FALSE)
  ELSE IF ~ Truthy(event.body.token)
    THEN Answer(401, "{error: API token required}", FALSE)
  ELSE IF ~ Truthy(event.body.endpoint)
    THEN Answer(400, "{error: Endpoint required}", FALSE)
  ELSE IF upstream.threw \/ ~ upstream.json
    THEN Answer(500, "{error: error.message}", TRUE)
  ELSE IF ~ upstream.ok
    THEN Answer(upstream.status, upstream.data, TRUE)
  ELSE Answer(200, upstream.data, TRUE)

\* One call of the function.
ProxyRequest ==
  /\ \E event \in ProxyEvents :
       \E upstream \in Upstreams :
         proxy' = [event |-> event, upstream |-> upstream,
                   response |-> Handler(event, upstream)]
  /\ last' = Other
  /\ UNCHANGED <<runVars, cms, importerVars, siteVars, apiToken, isConnecting,
                 connectionError, connects, isConnected, client, collections>>

\* App as it loads: the token field holds the token stored by an earlier
\* connection, if any, and the mount effect has called connect() with it.
InitApp ==
  /\ storedToken \in {Null, ValidToken}
  /\ apiToken = IF storedToken = Null THEN EmptyToken ELSE storedToken
  /\ isConnecting = Truthy(apiToken)
  /\ connects = IF Truthy(apiToken)
                THEN <<[token |-> apiToken, stage |-> "sites"]>> ELSE << >>
  /\ connectionError = Null
  /\ isConnected = FALSE
  /\ client = Null
  /\ sites = << >>
  /\ selectedSite = Null
  /\ collections = << >>
  /\ proxy = NoExchange
  /\ activeTab = "cms"
  /\ catalog = {}
  /\ ImporterInitialState
  /\ loads = << >>
  /\ selects = << >>
  /\ runs = [k \in 1..MaxRuns |-> Free]
  /\ cms = CmsInitialState
  /\ last = Other
  /\ store = << >>
  /\ items = << >>
  /\ onProgress = FALSE
  /\ pc = "idle"
  /\ offset = 0
  /\ allItems = << >>
  /\ existingItems = << >>
  /\ slugToId = << >>
  /\ idSet = {}
  /\ i = 0
  /\ results = << >>
  /\ errors = << >>
  /\ ret = Null
  /\ trace = << >>

NextApp ==
  \/ SetApiToken
  \/ Connect
  \/ SitesLoaded
  \/ CollectionsLoaded
  \/ ConnectFailed
  \/ HandleSiteChange
  \/ SiteCollectionsLoaded
  \/ SiteCollectionsFailed
  \/ Disconnect
  \/ ProxyRequest

SpecApp == InitApp /\ [][NextApp]_vars


\* ------------------------------------------------ import passes in flight
\* An import pass runs in the client, as modelled by StartUpsert..RowDelayDone
\* and CreateStart..CreateDelayDone; here each answer of the remote is one
\* step, the listing is one request, and the pause before the next row is
\* part of the step.  The rest of runImport runs when the pass ends.

\* runImport after `await client.upsertItems(...)` / `client.createItems(...)`
LiveResults(r) ==
  [mode |-> "live",
   total |-> r.total,
   success |-> r.total - Len(r.failed),
   errors |-> r.failed,
   isUpdateMode |-> r.kind = "upsert"]

\* getAllItems answered: the row loop starts with the write of row 0
RunListed(k) ==
  /\ runs[k].phase = "list"
  /\ runs' = [runs EXCEPT ![k].phase = "write"]
  /\ last' = Other
  /\ UNCHANGED <<runVars, cms, connVars, siteVars, catalog, activeTab, isConnected, client, collections,
                 importerState, loads, selects>>

\* getAllItems failed: upsertItems rejects, runImport catches
RunListFailed(k) ==
  /\ runs[k].phase = "list"
  /\ runs' = [runs EXCEPT ![k] = Free]
  /\ IF runs[k].mounted
     THEN /\ \E msg \in RemoteErrors : error' = "Import failed: " \o msg
          /\ isImporting' = FALSE
     ELSE UNCHANGED <<error, isImporting>>
  /\ last' = Other
  /\ UNCHANGED <<runVars, cms, connVars, siteVars, catalog, activeTab, isConnected, client, collections, file,
                 fileType, parsedData, headers, selectedCollection,
                 collectionFields, fieldMapping, importResults, isDryRun,
                 isUpdateMode, loads, selects>>

\* The write of row i was answered, with success or with an error that the
\* loop records; after the last row the pass returns.
RowAnswered(k, ok) ==
  LET r == runs[k]
      after == [r EXCEPT !.i = r.i + 1,
                         !.failed = IF ok THEN r.failed ELSE Append(r.failed, r.i),
                         !.phase = IF r.i + 1 < r.total THEN "write" ELSE "done"]
  IN  /\ r.phase = "write"
      /\ runs' = [runs EXCEPT ![k] = IF after.phase = "done" THEN Free ELSE after]
      /\ IF after.phase = "done" /\ r.mounted
         THEN /\ importResults' = Some(LiveResults(after))
              /\ isImporting' = FALSE
         ELSE UNCHANGED <<importResults, isImporting>>
      /\ last' = Other
      /\ UNCHANGED <<runVars, cms, connVars, siteVars, catalog, activeTab, isConnected, client, collections, file,
                     fileType, parsedData, headers, selectedCollection,
                     collectionFields, fieldMapping, isDryRun, isUpdateMode,
                     error, loads, selects>>

RunRowOk(k) == RowAnswered(k, TRUE)
RunRowFailed(k) == RowAnswered(k, FALSE)

\* App after connect has run to its end with a valid token.
ConnectedApp ==
  /\ apiToken = ValidToken
  /\ isConnecting = FALSE
  /\ connectionError = Null
  /\ client = ValidToken
  /\ sites = Sites
  /\ selectedSite = Sites[1]
  /\ collections = SiteCollections
  /\ isConnected = TRUE
  /\ storedToken = ValidToken
  /\ connects = << >>
  /\ proxy = NoExchange

\* A connected App whose client is idle.
Connected ==
  /\ ConnectedApp
  /\ ImporterInitialState
  /\ loads = << >>
  /\ selects = << >>
  /\ runs = [k \in 1..MaxRuns |-> Free]
  /\ cms = CmsInitialState
  /\ last = Other
  /\ store = << >>
  /\ items = << >>
  /\ onProgress = FALSE
  /\ pc = "idle"
  /\ offset = 0
  /\ allItems = << >>
  /\ existingItems = << >>
  /\ slugToId = << >>
  /\ idSet = {}
  /\ i = 0
  /\ results = << >>
  /\ errors = << >>
  /\ ret = Null
  /\ trace = << >>

WellFormed(f) == f.content = "rows" /\ Extension(f.name) \in {"csv", "json"}

\* One mounted importer, given files that load.
InitImporter ==
  /\ Connected
  /\ activeTab = "import"
  /\ catalog = { f \in Files : WellFormed(f) }

PassStep(k) ==
  \/ RunListed(k)
  \/ RunListFailed(k)
  \/ RunRowOk(k)
  \/ RunRowFailed(k)

NextImporter ==
  \/ ProcessFile
  \/ CsvParsed
  \/ JsonLoaded
  \/ HandleCollectionSelect
  \/ CollectionLoaded
  \/ CollectionFailed
  \/ UpdateMapping
  \/ SetIsUpdateMode
  \/ SetIsDryRun
  \/ ClickRun
  \/ ClickRunLive
  \/ Reset
  \/ DismissError
  \/ \E k \in 1..MaxRuns : PassStep(k)

SpecImporter == InitImporter /\ [][NextImporter]_vars

\* Loading files of every kind into one mounted importer.
InitUpload ==
  /\ Connected
  /\ activeTab = "import"
  /\ catalog = Files

NextUpload ==
  \/ ProcessFile
  \/ CsvParsed
  \/ JsonLoaded
  \/ HandleCollectionSelect
  \/ CollectionLoaded
  \/ Reset
  \/ DismissError

SpecUpload == InitUpload /\ [][NextUpload]_vars

\* Mapping and previewing one JSON file of up to MaxFileRows rows, each row
\* with an id and a slug, with a slug only, or with neither: every short
\* file, and the longer ones in which the three kinds of row alternate.
SampleRows ==
  <<[id |-> "i1", Slug |-> "y"], [id |-> "", Slug |-> "s2"], [id |-> "", Slug |-> ""]>>
Alternating(n, shift) == [k \in 1..n |-> SampleRows[((k + shift) % 3) + 1]]
SampleData ==
  UNION { [1..n -> { SampleRows[k] : k \in 1..3 }] : n \in 1..MaxRows }
  \cup { Alternating(n, shift) : n \in 1..MaxFileRows, shift \in 0..2 }
SampleFiles ==
  { [name |-> "items.json", content |-> "rows", rows |-> r] : r \in SampleData }

InitMapping ==
  /\ Connected
  /\ activeTab = "import"
  /\ \E f \in SampleFiles : catalog = {f}

NextMapping ==
  \/ ProcessFile
  \/ JsonLoaded
  \/ HandleCollectionSelect
  \/ CollectionLoaded
  \/ UpdateMapping
  \/ SetIsUpdateMode
  \/ ClickRun

SpecMapping == InitMapping /\ [][NextMapping]_vars

\* The operator's way to a live import and the actions named as not
\* cancelling it, with the tabs of App around the importer.
InitPasses ==
  /\ Connected
  /\ activeTab = "cms"
  /\ catalog = { f \in Files : f.name = "items.CSV" }

OperatorAction ==
  \/ ProcessFile
  \/ HandleCollectionSelect
  \/ SetIsUpdateMode
  \/ ClickRun
  \/ ClickRunLive
  \/ Reset
  \/ SwitchTab
  \/ Disconnect

NextPasses ==
  \/ OperatorAction
  \/ CsvParsed
  \/ CollectionLoaded
  \/ \E k \in 1..MaxRuns : PassStep(k)

SpecPasses == InitPasses /\ [][NextPasses]_vars

\* One importer with a file loaded and its collection selected, as
\* CsvParsed / JsonLoaded and CollectionLoaded leave it, and what the
\* operator can do from there without loading another file.
Ready(f) ==
  LET data == IF Extension(f.name) = "csv" THEN PapaParse(f).data
              ELSE JSONParse(f).dataArray
      hdrs == IF Extension(f.name) = "csv" THEN PapaParse(f).fields
              ELSE ObjectKeys(data[1])
  IN  /\ file = f.name
      /\ fileType = Extension(f.name)
      /\ parsedData = Some(data)
      /\ headers = hdrs
      /\ selectedCollection = SiteCollections[1]
      /\ collectionFields = FieldsOf(SiteCollections[1])
      /\ fieldMapping = AutoMapping(hdrs, FieldsOf(SiteCollections[1]))
      /\ isImporting = FALSE
      /\ importResults = None
      /\ isDryRun = TRUE
      /\ isUpdateMode = FALSE
      /\ error = Null

InitReady ==
  /\ activeTab = "import"
  /\ ConnectedApp
  /\ catalog = { f \in Files : WellFormed(f) }
  /\ \E f \in catalog : Ready(f)
  /\ loads = << >>
  /\ selects = << >>
  /\ runs = [k \in 1..MaxRuns |-> Free]
  /\ cms = CmsInitialState
  /\ last = Other
  /\ store = << >>
  /\ items = << >>
  /\ onProgress = FALSE
  /\ pc = "idle"
  /\ offset = 0
  /\ allItems = << >>
  /\ existingItems = << >>
  /\ slugToId = << >>
  /\ idSet = {}
  /\ i = 0
  /\ results = << >>
  /\ errors = << >>
  /\ ret = Null
  /\ trace = << >>

NextReady ==
  \/ UpdateMapping
  \/ SetIsUpdateMode
  \/ SetIsDryRun
  \/ ClickRun
  \/ ClickRunLive
  \/ Reset
  \/ DismissError
  \/ SwitchTab
  \/ Disconnect
  \/ \E k \in 1..MaxRuns : PassStep(k)

SpecReady == InitReady /\ [][NextReady]_vars

\* Each remote call eventually answers.
SpecReadyFair ==
  SpecReady /\ \A k \in 1..MaxRuns : WF_vars(PassStep(k))



\* A connected App showing the CMS Manager of a site with two collections.
InitCms ==
  /\ apiToken = ValidToken
  /\ isConnecting = FALSE
  /\ connectionError = Null
  /\ client = ValidToken
  /\ sites = Sites
  /\ selectedSite = Sites[1]
  /\ collections = CmsCollections
  /\ isConnected = TRUE
  /\ storedToken = ValidToken
  /\ connects = << >>
  /\ proxy = NoExchange
  /\ activeTab = "cms"
  /\ catalog = {}
  /\ ImporterInitialState
  /\ loads = << >>
  /\ selects = << >>
  /\ runs = [k \in 1..MaxRuns |-> Free]
  /\ cms = CmsInitialState
  /\ last = Other
  /\ store = << >>
  /\ items = << >>
  /\ onProgress = FALSE
  /\ pc = "idle"
  /\ offset = 0
  /\ allItems = << >>
  /\ existingItems = << >>
  /\ slugToId = << >>
  /\ idSet = {}
  /\ i = 0
  /\ results = << >>
  /\ errors = << >>
  /\ ret = Null
  /\ trace = << >>

NextCms ==
  \/ LoadCollection
  \/ DetailsLoaded
  \/ ItemsLoaded
  \/ LoadFailed
  \/ SwitchTab

SpecCms == InitCms /\ [][NextCms]_vars

\* ------------------------------------------------------------ observations
IsRemoteCall(e) == e.kind \in {"list", "update", "create"}
IsWrite(e) == e.kind \in {"update", "create"}
IsListCall(e) == e.kind = "list"
IsPage(e) == e.kind = "page"
IsTimed(e) == e.kind \in {"list", "update", "create", "delay"}

WriteIdx == { k \in 1..Len(trace) : IsWrite(trace[k]) }
RowOf(k) == items[trace[k].row + 1]

\* The failed writes: the error responses that belong to a row.
WriteErrorIdx ==
  { k \in 1..Len(trace) : trace[k].kind = "error" /\ "row" \in DOMAIN trace[k] }

ListErrorIdx ==
  { k \in 1..Len(trace) : trace[k].kind = "error" /\ "row" \notin DOMAIN trace[k] }

HasId(row) == "id" \in DOMAIN row /\ row["id"] /= ""
HasSlug(row) == "slug" \in DOMAIN row /\ row["slug"] /= ""

\* The listed items that carry a given identifier / slug.
ListedWithId(v) ==
  { m \in 1..Len(existingItems) : existingItems[m].id = v }
ListedWithSlug(v) ==
  { m \in 1..Len(existingItems) :
      /\ "slug" \in DOMAIN existingItems[m].fieldData
      /\ existingItems[m].fieldData["slug"] = v }

IdMatches(row) == HasId(row) /\ ListedWithId(row["id"]) /= {}
SlugMatches(row) == HasSlug(row) /\ ListedWithSlug(row["slug"]) /= {}

\* C1: a row whose non-empty id is the identifier of a listed item is
\* written with an update that targets that identifier, never with a create.
C1_IdMatchIsUpdated ==
  \A k \in WriteIdx :
    IdMatches(RowOf(k)) =>
      trace[k].kind = "update" /\ trace[k].target = RowOf(k)["id"]

C1_Witness ==
  \E k \in WriteIdx : IdMatches(RowOf(k)) /\ ~ SlugMatches(RowOf(k))

C3_NoMatchIsCreated ==
  \A k \in WriteIdx :
    (~ IdMatches(RowOf(k)) /\ ~ SlugMatches(RowOf(k))) => trace[k].kind = "create"

\* C4: a run that returns reports created + updated + errors.length = total
\* and total is the number of input rows.
C4_CountsSumToTotal ==
  pc = "returned" =>
    /\ ret.created + ret.updated + Len(ret.errors) = ret.total
    /\ ret.total = Len(items)

\* C5: a failed write of row i leaves exactly one entry with index i,
\* carrying the error message, in the error list; the run goes on and every
\* later row gets its write.
C5_FailureRecordedAndSkipped ==
  \A k \in WriteErrorIdx :
    LET r == trace[k].row
        es == { e \in 1..Len(errors) : errors[e].index = r }
    IN /\ Cardinality(es) = 1
       /\ \A e \in es : errors[e].error = trace[k].msg /\ errors[e].item = items[r + 1]
       /\ pc /= "rejected"
       /\ pc = "returned" =>
            \A j \in (r + 1)..(Len(items) - 1) :
               \E w \in WriteIdx : w > k /\ trace[w].row = j

C5_Witness ==
  /\ pc = "returned"
  /\ \E k \in WriteErrorIdx : trace[k].row = 0 /\ Len(items) > 1

\* C6 as claimed: whichever remote call fails, the run is not rejected.
C6_NoRemoteFailureIsFatal ==
  (WriteErrorIdx \cup ListErrorIdx) /= {} => pc /= "rejected"

\* C6 amended: a failing write is never fatal, and the returned result
\* accounts for every row (a failed write in the error list only, an
\* accepted write in the success list); a failing listing call rejects the
\* run before any write is issued.
C6_WriteFailureIsNotFatal ==
  /\ WriteErrorIdx /= {} => pc /= "rejected"
  /\ ListErrorIdx /= {} => pc = "rejected" /\ WriteIdx = {}
  /\ pc = "returned" =>
       /\ \A r \in 0..(Len(items) - 1) :
            \/ \E e \in 1..Len(ret.errors) : ret.errors[e].index = r
            \/ \E e \in 1..Len(ret.results) : ret.results[e].index = r
       /\ \A k \in WriteErrorIdx :
            /\ \E e \in 1..Len(ret.errors) : ret.errors[e].index = trace[k].row
            /\ \A e \in 1..Len(ret.results) : ret.results[e].index /= trace[k].row
       /\ \A e \in 1..Len(ret.results) :
            ret.results[e].action \in {"created", "updated"}

C6_Witness ==
  /\ pc = "returned"
  /\ WriteErrorIdx /= {}
  /\ Len(ret.errors) = Len(items)
  /\ Len(items) > 1

\* C7: the id takes precedence over the slug: a row whose id is the
\* identifier of listed item A and whose slug is carried by another listed
\* item B is written with an update of A.
C7_IdBeforeSlug ==
  \A k \in WriteIdx :
    (/\ IdMatches(RowOf(k))
     /\ \E m \in ListedWithSlug(Field(RowOf(k), "slug")) :
          existingItems[m].id /= RowOf(k)["id"]) =>
      trace[k].kind = "update" /\ trace[k].target = RowOf(k)["id"]

C7_Witness ==
  \E k \in WriteIdx :
    /\ IdMatches(RowOf(k))
    /\ \E m \in ListedWithSlug(Field(RowOf(k), "slug")) :
         existingItems[m].id /= RowOf(k)["id"]

\* C8: the payload of every create or update is the row without its id key:
\* no id, and every other field of the row with its value.
C8_PayloadIsRowWithoutId ==
  \A k \in WriteIdx :
    /\ "id" \notin DOMAIN trace[k].payload
    /\ DOMAIN trace[k].payload = DOMAIN RowOf(k) \ {"id"}
    /\ \A f \in DOMAIN trace[k].payload : trace[k].payload[f] = RowOf(k)[f]

C8_Witness ==
  \E k \in WriteIdx :
    /\ trace[k].kind = "create"
    /\ HasId(RowOf(k))
    /\ HasSlug(RowOf(k))

\* C9: the listing asks for pages of the fixed size at offsets 0, size,
\* 2*size, ..., stops at the first short page, and has then collected the
\* n items of the collection once each, in order, with n \div size + 1
\* requests; it gets past the listing only after a short page.
ListCalls == SelectSeq(trace, IsListCall)
PagesSeen == SelectSeq(trace, IsPage)
CreatedCount == Len(SelectSeq(results, IsCreated))
IdsOf(its) == [k \in 1..Len(its) |-> its[k].id]
ListedStore == SubSeq(store, 1, Len(store) - CreatedCount)
ShortPageSeen == \E k \in 1..Len(PagesSeen) : PagesSeen[k].count < limit

C9_Pagination ==
  /\ \A k \in 1..Len(ListCalls) :
       ListCalls[k].offset = (k - 1) * limit /\ ListCalls[k].limit = limit
  /\ \A k \in 1..Len(PagesSeen) : PagesSeen[k].count < limit => k = Len(PagesSeen)
  /\ Len(ListCalls) - Len(PagesSeen) \in {0, 1}
  /\ ShortPageSeen => Len(ListCalls) = Len(PagesSeen)
  /\ Len(allItems) <= Len(ListedStore)
  /\ IdsOf(allItems) = IdsOf(SubSeq(ListedStore, 1, Len(allItems)))
  /\ WriteIdx = {} => allItems = SubSeq(ListedStore, 1, Len(allItems))
  /\ Len(allItems) = IF PagesSeen = << >> THEN 0
                     ELSE (Len(PagesSeen) - 1) * limit + Last(PagesSeen).count
  /\ ShortPageSeen =>
       /\ IdsOf(allItems) = IdsOf(ListedStore)
       /\ Len(ListCalls) = (Len(ListedStore) \div limit) + 1
  /\ pc \in {"awaitWrite", "rowDelay", "returned"} =>
       ShortPageSeen /\ existingItems = allItems

C9_Witness ==
  /\ ShortPageSeen
  /\ Len(ListCalls) = 2
  /\ Len(allItems) = limit
  /\ pc = "returned"
  /\ Len(items) > 0

\* C10: between two consecutive remote calls of a run the delay elapses.
Timeline == SelectSeq(trace, IsTimed)

C10_DelayBetweenCalls ==
  \A k \in 1..(Len(Timeline) - 1) :
    ~ (IsRemoteCall(Timeline[k]) /\ IsRemoteCall(Timeline[k + 1]))

\* C11: every row causes exactly one write call, the calls are issued in
\* input order, and a failed call is not issued again.
WriteCalls == SelectSeq(trace, IsWrite)

C11_OneWritePerRowInOrder ==
  /\ \A k \in 1..Len(WriteCalls) : WriteCalls[k].row = k - 1
  /\ Len(WriteCalls) <= Len(items)
  /\ pc = "returned" => Len(WriteCalls) = Len(items)
  /\ \A k \in WriteErrorIdx :
       Cardinality({ w \in WriteIdx : trace[w].row = trace[k].row }) = 1

C11_Witness ==
  /\ pc = "returned"
  /\ Len(items) >= 2
  /\ \E k \in WriteErrorIdx : trace[k].row = 0

\* C12: every success entry carries the index of its row and the tag of the
\* call issued for that row; the success list and the error list are each
\* in strictly increasing index order, and no index is in both.
StrictlyIncreasing(list) ==
  \A a, b \in 1..Len(list) : a < b => list[a].index < list[b].index

C12_OutcomeBookkeeping ==
  /\ \A e \in 1..Len(results) :
       \E w \in WriteIdx :
         /\ trace[w].row = results[e].index
         /\ results[e].action = "updated" <=> trace[w].kind = "update"
         /\ results[e].action = "created" <=> trace[w].kind = "create"
  /\ StrictlyIncreasing(results)
  /\ StrictlyIncreasing(errors)
  /\ \A a \in 1..Len(results), b \in 1..Len(errors) :
       results[a].index /= errors[b].index

\* C13: the worked example, every remote call succeeding: update(a1),
\* update(other), create, in that order; created = 1, updated = 2 and no
\* error.
\* (the collection as the listing of the run found it)
IsExample ==
  /\ items = ExampleRows
  /\ Len(existingItems) >= 2
  /\ SubSeq(existingItems, 1, 2) = ExampleStore
NoRemoteError == WriteErrorIdx = {} /\ ListErrorIdx = {}
CallbackThrew ==
  \E e \in 1..Len(errors) : errors[e].error = CallbackError

C13_WorkedExample ==
  (IsExample /\ NoRemoteError /\ ~ CallbackThrew) =>
    /\ pc = "rejected" => onProgress
    /\ Len(WriteCalls) >= 1 =>
         WriteCalls[1].kind = "update" /\ WriteCalls[1].target = "a1"
    /\ Len(WriteCalls) >= 2 =>
         WriteCalls[2].kind = "update" /\ WriteCalls[2].target = "other"
    /\ Len(WriteCalls) >= 3 => WriteCalls[3].kind = "create"
    /\ pc = "returned" =>
         /\ Len(WriteCalls) = 3
         /\ ret.created = 1
         /\ ret.updated = 2
         /\ ret.errors = << >>
         /\ ret.total = 3

C13_Witness ==
  IsExample /\ NoRemoteError /\ ~ CallbackThrew /\ pc = "returned"

\* C14: createItems issues one create per row, in input order, and no
\* listing or update call; a failed row is recorded with its index and the
\* later rows are still sent; on return results.length + errors.length =
\* total = number of rows.
C14_CreateOnlyImport ==
  /\ \A k \in 1..Len(trace) : trace[k].kind \notin {"list", "update", "page"}
  /\ \A k \in 1..Len(WriteCalls) :
       /\ WriteCalls[k].kind = "create"
       /\ WriteCalls[k].row = k - 1
       /\ WriteCalls[k].payload = items[k]
  /\ Len(WriteCalls) <= Len(items)
  /\ \A k \in WriteErrorIdx :
       /\ Cardinality({ e \in 1..Len(errors) : errors[e].index = trace[k].row }) = 1
       /\ \A e \in 1..Len(errors) :
            errors[e].index = trace[k].row => errors[e].error = trace[k].msg
  /\ pc = "createReturned" =>
       /\ Len(WriteCalls) = Len(items)
       /\ Len(ret.results) + Len(ret.errors) = ret.total
       /\ ret.total = Len(items)

C14_Witness ==
  /\ pc = "createReturned"
  /\ Len(items) >= 2
  /\ \E k \in WriteErrorIdx : trace[k].row = 0
  /\ Len(ret.results) >= 1

\* C15: when runImport takes the dry-run path, in create-only mode and in
\* update mode alike, the call issues no list, create or update request and
\* starts no import pass; it leaves the dry-run result on screen.
C15_DryRunIssuesNoRequest ==
  (last.op = "runImport" /\ last.path /= "return" /\ last.dryRun) =>
    /\ last.issued = << >>
    /\ \A k \in 1..MaxRuns : ~ InFlight(runs[k])
    /\ IsSome(importResults) /\ Get(importResults).mode = "dry-run"

C15_Witness ==
  /\ last.op = "runImport" /\ last.path /= "return" /\ last.dryRun
  /\ isUpdateMode
  /\ Get(importResults).total > 0

\* C16: the dry-run result partitions the transformed rows into rows with an
\* id, rows with a slug and no id, and rows with neither: the three counts
\* are those of the three classes, none is negative and they add up to the
\* total; the preview is the first min(5, total) transformed rows in input
\* order and the error list is empty.
Transformed == TransformData(Get(parsedData), fieldMapping, isUpdateMode)
ClassOf(row) ==
  IF HasId(row) THEN "id" ELSE IF HasSlug(row) THEN "slug" ELSE "new"
ClassCount(c) ==
  Cardinality({ k \in 1..Len(Transformed) : ClassOf(Transformed[k]) = c })
DryRunShown ==
  /\ last.op = "runImport" /\ last.path = "dry-run"
  /\ IsSome(importResults)

C16_DryRunPartition ==
  DryRunShown =>
    LET r == Get(importResults)
    IN  /\ r.total = Len(Get(parsedData))
        /\ r.itemsWithId = ClassCount("id")
        /\ r.itemsWithSlug = ClassCount("slug")
        /\ r.itemsNew = ClassCount("new")
        /\ r.itemsWithId >= 0 /\ r.itemsWithSlug >= 0 /\ r.itemsNew >= 0
        /\ r.itemsWithId + r.itemsWithSlug + r.itemsNew = r.total
        /\ Len(r.preview) = Min(5, r.total)
        /\ \A k \in 1..Len(r.preview) : r.preview[k] = Transformed[k]
        /\ r.errors = << >>

C16_Witness ==
  /\ DryRunShown
  /\ Get(importResults).total > 5
  /\ Get(importResults).itemsWithId > 0
  /\ Get(importResults).itemsWithSlug > 0
  /\ Get(importResults).itemsNew > 0
  /\ \E k \in 1..Len(Transformed) : HasId(Transformed[k]) /\ HasSlug(Transformed[k])

\* C17: at no time are two import passes started from the Data Import view
\* in flight at once, whatever the operator clicks: the run button, Run
\* Live, Clear / Start Over, the tabs.
PassesInFlight == { k \in 1..MaxRuns : InFlight(runs[k]) }

C17_OnePassInFlight == Cardinality(PassesInFlight) <= 1

\* C18: once a live import run has started, no operator action (Clear, tab
\* switch, disconnect) cancels it: in every step a pass in flight stays as it
\* is, or goes on to its next request, or ends having attempted its last
\* row; and, the remote answering, it does end.
SamePass(a, b) == InFlight(b) /\ [a EXCEPT !.mounted = b.mounted] = b
Advanced(a, b) ==
  /\ InFlight(b)
  /\ b.kind = a.kind /\ b.total = a.total
  /\ \/ a.phase = "list" /\ b.phase = "write" /\ b.i = 0
     \/ a.phase = "write" /\ b.phase = "write" /\ b.i = a.i + 1
EndedAfterLastRow(a, b) ==
  ~ InFlight(b) /\ a.phase = "write" /\ a.i + 1 = a.total

RunsToItsEnd(k) ==
  \/ SamePass(runs[k], runs'[k])
  \/ Advanced(runs[k], runs'[k])
  \/ EndedAfterLastRow(runs[k], runs'[k])

C18_StartedRunIsNeverCut ==
  [][\A k \in 1..MaxRuns : InFlight(runs[k]) => RunsToItsEnd(k)]_vars

\* C18, amended: the same of a run whose row loop has started (a failed
\* listing ends an upsert run before its first row): no step cuts it short,
\* and each remote call answering, it ends, after its last row.
C18_RowLoopIsNeverCut ==
  /\ [][\A k \in 1..MaxRuns : runs[k].phase = "write" => RunsToItsEnd(k)]_vars
  /\ \A k \in 1..MaxRuns : (runs[k].phase = "write") ~> ~ InFlight(runs[k])

C18_Witness ==
  \E k \in 1..MaxRuns :
    /\ runs[k].phase = "write" /\ runs[k].i > 0 /\ runs[k].failed /= << >>
    /\ ~ runs[k].mounted
    /\ ~ isConnected

\* C20: when loading an uploaded file fails (a CSV the parser finds errors
\* in, a text that is not JSON, an extension other than csv and json), an
\* error message is set, parsedData and headers keep their values, so that
\* the importer does not advance to the mapping step, and no remote call is
\* made.
LoadFails(f) ==
  \/ f.content = "malformed"
  \/ Extension(f.name) \notin {"csv", "json"}

FailedLoadStep ==
  \/ \E k \in 1..Len(loads) :
       /\ loads' = RemoveAt(loads, k)
       /\ LoadFails(loads[k])
  \/ /\ last'.op = "processFile" /\ last' /= last
     /\ \E f \in catalog : f.name = last'.file /\ LoadFails(f)
     /\ loads' = loads

C20_FailedLoadIsSurfaced ==
  [][FailedLoadStep =>
       /\ Truthy(error')
       /\ parsedData' = parsedData /\ headers' = headers
       /\ selects' = selects /\ runs' = runs]_vars

\* C19: connect() with an empty token or a token of 20 characters or fewer
\* sets connectionError, issues no request and leaves client, sites,
\* isConnected and the stored token as they are; and the proxy answers a
\* request that carries no token with 401 without contacting the remote API.
TooShort(token) == Len(token) <= 20
RefusedConnect == last.op = "connect" /\ TooShort(last.token)
CarriesNoToken(event) ==
  event.body.json /\ (event.body.token = Undefined \/ event.body.token = "")

C19_CredentialCheckedFirst ==
  /\ [][(last'.op = "connect" /\ last' /= last /\ TooShort(last'.token)) =>
          /\ connectionError' = "Invalid API token format"
          /\ last'.issued = << >> /\ connects' = connects
          /\ client' = client /\ sites' = sites
          /\ isConnected' = isConnected /\ storedToken' = storedToken]_vars
  /\ [](proxy /= NoExchange =>
          /\ (proxy.event.httpMethod = "POST" /\ CarriesNoToken(proxy.event)) =>
               proxy.response.statusCode = 401
          /\ (~ proxy.event.body.json \/ CarriesNoToken(proxy.event)) =>
               ~ proxy.response.fetched)

C19_Witness ==
  /\ RefusedConnect /\ last.token = ShortToken
  /\ connectionError = "Invalid API token format"
  /\ proxy /= NoExchange
  /\ proxy.event.httpMethod = "POST" /\ CarriesNoToken(proxy.event)
  /\ proxy.event.body.endpoint = Undefined

\* The second run of a re-run: its writes, and what the first run returned.
RerunAt == CHOOSE k \in 1..Len(trace) : trace[k].kind = "rerun"
FirstRun == trace[RerunAt].first
SecondWrites == { k \in WriteIdx : Reran /\ k > RerunAt }
DistinctSlugs ==
  /\ \A a \in 1..Len(items) : HasSlug(items[a])
  /\ \A a, b \in 1..Len(items) : a /= b => items[a]["slug"] /= items[b]["slug"]
CleanFirstRun == Reran /\ FirstRun.errors = << >>
HoldsSlug(id, slug) ==
  \E m \in ListedWithSlug(slug) : existingItems[m].id = id

\* C21 as claimed: after a first run without errors over rows with distinct
\* non-empty slugs, every write of the second run is an update of the item
\* that holds the row's slug.
C21_RerunUpdatesSlugHolder ==
  (CleanFirstRun /\ DistinctSlugs) =>
    \A k \in SecondWrites :
      /\ trace[k].kind = "update"
      /\ HoldsSlug(trace[k].target, RowOf(k)["slug"])

\* C21 amended: the same when, besides, no row carries the id of an item of
\* the collection (a row that does is written to the item it names, whose
\* slug it may change, so that a row matched by that slug in the first run
\* finds no item in the second).
NoRowNamesAnItem ==
  \A a \in 1..Len(items), m \in 1..Len(store) :
    Field(items[a], "id") /= store[m].id

C21_RerunOnlyUpdates ==
  (CleanFirstRun /\ DistinctSlugs /\ NoRowNamesAnItem) =>
    \A k \in SecondWrites :
      /\ trace[k].kind = "update"
      /\ HoldsSlug(trace[k].target, RowOf(k)["slug"])

C21_Witness ==
  /\ CleanFirstRun /\ DistinctSlugs /\ NoRowNamesAnItem
  /\ pc = "returned"
  /\ Len(items) >= 2
  /\ FirstRun.created >= 1
  /\ FirstRun.updated >= 1
  /\ ret.updated = Len(items)
  /\ ret.errors = << >>

\* C22: a row for which the first run created an item and which matches no
\* listed item by id or slug in the second run is written with a create
\* again, and the collection then holds two items made from that row; this
\* happens after a first run in which another row failed.
CreatedIn(res, r) ==
  { e \in 1..Len(res) : res[e].index = r /\ res[e].action = "created" }
FieldsOfRow(r) == [f \in DOMAIN items[r + 1] \ {"id"} |-> items[r + 1][f]]
StoredAs(id, fieldData) ==
  \E m \in 1..Len(store) : store[m].id = id /\ store[m].fieldData = fieldData
CreatedTwice(r) ==
  Reran /\ CreatedIn(FirstRun.results, r) /= {} /\ CreatedIn(results, r) /= {}

C22_RerunCreatesAgain ==
  /\ \A k \in SecondWrites :
       (/\ CreatedIn(FirstRun.results, trace[k].row) /= {}
        /\ ~ IdMatches(RowOf(k))
        /\ ~ SlugMatches(RowOf(k))) => trace[k].kind = "create"
  /\ \A r \in 0..(Len(items) - 1) :
       CreatedTwice(r) =>
         \A a \in CreatedIn(FirstRun.results, r), b \in CreatedIn(results, r) :
           /\ FirstRun.results[a].data.id /= results[b].data.id
           /\ StoredAs(FirstRun.results[a].data.id, FieldsOfRow(r))
           /\ StoredAs(results[b].data.id, FieldsOfRow(r))

C22_Witness ==
  /\ Reran
  /\ pc = "returned"
  /\ FirstRun.errors /= << >>
  /\ \E r \in 0..(Len(items) - 1) : CreatedTwice(r) /\ HasId(items[r + 1])

\* C23: with a callback passed, the progress events of a run are: one
\* 'fetching' event before any remote call; one 'importing' event after the
\* last page of the listing and before the first write; then one
\* 'importing' event right after each accepted write, with current = row
\* index + 1 and total = row count.  The current values increase strictly
\* and never exceed total; a failed write is followed by no event.
ProgressIdx == { k \in 1..Len(trace) : trace[k].kind = "progress" }
FetchingIdx == { k \in ProgressIdx : trace[k].phase = "fetching" }
FoundIdx ==
  { k \in ProgressIdx : trace[k].phase = "importing" /\ "current" \notin DOMAIN trace[k] }
RowEventIdx == ProgressIdx \ (FetchingIdx \cup FoundIdx)
OkIdx == { k \in 1..Len(trace) : trace[k].kind = "ok" }

C23_ProgressSequence ==
  onProgress =>
    /\ pc /= "idle" => FetchingIdx = {1}
    /\ Cardinality(FoundIdx) <= 1
    /\ \A k \in FoundIdx :
         /\ trace[k - 1].kind = "page" /\ trace[k - 1].count < limit
         /\ \A w \in WriteIdx : k < w
    /\ (ShortPageSeen /\ pc /= "awaitList") => FoundIdx /= {}
    /\ \A k \in OkIdx :
         /\ k + 1 \in RowEventIdx
         /\ trace[k + 1].current = trace[k].row + 1
         /\ trace[k + 1].total = Len(items)
    /\ \A k \in RowEventIdx : k - 1 \in OkIdx
    /\ \A a, b \in RowEventIdx : a < b => trace[a].current < trace[b].current
    /\ \A k \in RowEventIdx : trace[k].current <= trace[k].total
    /\ \A k \in WriteErrorIdx :
         /\ k + 1 \notin ProgressIdx
         /\ \A e \in RowEventIdx : trace[e].current /= trace[k].row + 1

C23_Witness ==
  /\ onProgress
  /\ pc = "returned"
  /\ Len(items) >= 2
  /\ Cardinality(RowEventIdx) = 1
  /\ \E k \in WriteErrorIdx : trace[k].row = 0
  /\ \E e \in RowEventIdx : trace[e].current = 2

\* C24: the live upsert does what the dry-run classes announce: a row the
\* dry run counts as having an id is written with an update of exactly that
\* id, a row it counts as having a slug only is matched by its slug, and
\* only rows it counts as having neither are created.
C24_LiveFollowsDryRunClasses ==
  \A k \in WriteIdx :
    /\ WithId(RowOf(k)) =>
         trace[k].kind = "update" /\ trace[k].target = RowOf(k)["id"]
    /\ (WithSlugOnly(RowOf(k)) /\ trace[k].kind = "update") =>
         HoldsSlug(trace[k].target, RowOf(k)["slug"])
    /\ trace[k].kind = "create" =>
         ~ WithId(RowOf(k)) /\ ~ WithSlugOnly(RowOf(k))

\* C25: a click on the primary run button of the mapping step follows the
\* dry-run checkbox: checked, a dry run; unchecked, a live import that
\* issues its first request.
PrimaryButtonClicked ==
  MappingShown /\ last'.op = "runImport" /\ last'.path /= "return"

C25_RunButtonFollowsCheckbox ==
  [][PrimaryButtonClicked =>
       /\ last'.dryRun = isDryRun
       /\ isDryRun => last'.path = "dry-run" /\ last'.issued = << >>
       /\ ~ isDryRun => last'.path /= "dry-run" /\ last'.issued /= << >>]_vars

\* C26 as claimed: the handler calls the remote API only for a POST whose
\* body carries a token and an endpoint; otherwise it answers 405, 401 or
\* 400, checked in that order; a non-success answer of the remote is passed
\* on with its status and body; a thrown error gives 500.
Forwardable(event) ==
  /\ event.httpMethod = "POST"
  /\ event.body.json
  /\ Truthy(event.body.token)
  /\ Truthy(event.body.endpoint)

ProxyGate(event, response) ==
  /\ response.fetched <=> Forwardable(event)
  /\ event.httpMethod /= "POST" => response.statusCode = 405
  /\ (event.httpMethod = "POST" /\ event.body.json) =>
       /\ ~ Truthy(event.body.token) => response.statusCode = 401
       /\ (Truthy(event.body.token) /\ ~ Truthy(event.body.endpoint)) =>
            response.statusCode = 400
  /\ (event.httpMethod = "POST" /\ ~ event.body.json) => response.statusCode = 500

C26_ProxyPassesFailuresOn ==
  proxy /= NoExchange =>
    /\ ProxyGate(proxy.event, proxy.response)
    /\ Forwardable(proxy.event) =>
         /\ proxy.upstream.threw => proxy.response.statusCode = 500
         /\ (~ proxy.upstream.threw /\ ~ proxy.upstream.ok) =>
              /\ proxy.response.statusCode = proxy.upstream.status
              /\ proxy.response.body = proxy.upstream.data

\* C26 amended: a non-success answer of the remote is passed on with its
\* status and body when its body is JSON; when the body cannot be read as
\* JSON, response.json() throws and the handler answers 500 like for any
\* thrown error.
C26_ProxyGateAndPassThrough ==
  proxy /= NoExchange =>
    /\ ProxyGate(proxy.event, proxy.response)
    /\ Forwardable(proxy.event) =>
         /\ (proxy.upstream.threw \/ ~ proxy.upstream.json) =>
              proxy.response.statusCode = 500
         /\ (~ proxy.upstream.threw /\ proxy.upstream.json /\ ~ proxy.upstream.ok) =>
              /\ proxy.response.statusCode = proxy.upstream.status
              /\ proxy.response.body = proxy.upstream.data

C26_Witness ==
  /\ proxy /= NoExchange
  /\ Forwardable(proxy.event)
  /\ proxy.upstream.status = 429
  /\ proxy.response.statusCode = 429
  /\ proxy.response.fetched

\* C27: the id set and the slug lookup are built once, from one listing
\* that ends before the first write, and no later step changes them; the
\* write issued for a row depends on that listing and the row only: equal
\* rows get the same call, and two rows sharing a slug that no listed item
\* holds (and naming no listed item by id) are both written with a create.
ListCallIdx == { k \in 1..Len(trace) : IsListCall(trace[k]) }
SameDecision(a, b) ==
  trace[a].kind = trace[b].kind /\ trace[a].target = trace[b].target

C27_LookupsBuiltOnce ==
  /\ [][(<<existingItems, idSet, slugToId>>' /= <<existingItems, idSet, slugToId>>) =>
          /\ pc = "awaitList"
          /\ WriteIdx = {}
          /\ existingItems' = allItems'
          /\ idSet' = BuildIdSet(allItems')]_vars
  /\ [](/\ \A l \in ListCallIdx, w \in WriteIdx : l < w
        /\ \A a, b \in WriteIdx :
             /\ RowOf(a) = RowOf(b) => SameDecision(a, b)
             /\ (/\ a /= b
                 /\ ~ IdMatches(RowOf(a)) /\ ~ IdMatches(RowOf(b))
                 /\ HasSlug(RowOf(a)) /\ HasSlug(RowOf(b))
                 /\ RowOf(a)["slug"] = RowOf(b)["slug"]
                 /\ ~ SlugMatches(RowOf(a))) =>
                  trace[a].kind = "create" /\ trace[b].kind = "create")

\* C28: whenever isConnected is false, App holds no connection data: client
\* is null, and sites and collections are empty.
C28_DisconnectedHoldsNothing ==
  ~ isConnected => client = Null /\ sites = << >> /\ collections = << >>

\* C29: once every load has settled, the details and the items shown are
\* those of the collection selected last, and neither loading flag is set.
CmsSettled == cms.loads = << >> /\ cms.selectedCollection /= Null

C29_SettledViewShowsSelection ==
  CmsSettled =>
    /\ IsSome(cms.collectionDetails) =>
         Get(cms.collectionDetails).id = cms.selectedCollection
    /\ \A k \in 1..Len(cms.items) :
         cms.items[k].collection = cms.selectedCollection
    /\ ~ cms.isLoading /\ ~ cms.isLoadingItems

\* C30: after reset() the view is at its first step with parsedData,
\* fieldMapping, selectedCollection and importResults cleared, and
\* importResults stays null until a new import is started.  Only reset()
\* makes parsedData null again and runImport returns at once while it is
\* null (line 144), so as long as parsedData is null no import has been
\* started since the reset: importResults is then null, also when a pass
\* that was in flight at the reset ends.
ResetStep == IsSome(parsedData) /\ parsedData' = None

C30_ResetViewStaysCleared ==
  /\ [][ResetStep => /\ fieldMapping' = << >>
                     /\ selectedCollection' = Null
                     /\ importResults' = None]_vars
  /\ [](parsedData = None => importResults = None)

====
